---------------------------- MODULE Spec2Model ----------------------------
(***************************************************************************)
(* A model of SPLATT's TTMc kernels (src/src/ttm.c) and of the CCD tensor  *)
(* completion kernel (src/src/completion/ccd.c).                          *)
(*                                                                         *)
(* C arrays are functions over 0..n-1.  val_t values are integers: the     *)
(* kernels only add and multiply them, which is exact on integers.         *)
(***************************************************************************)
EXTENDS Integers, Sequences, FiniteSets, TLC

VARIABLES
  inp,                \* the arguments of the call under way (never changed)
  tenout,             \* the output slab Y (ttm.c)
  tenout0,            \* what the caller's slab held when the call was made
  locks_initialized,  \* ttm.c:20
  locks,              \* the held slots of ttm.c:24 locks[], as <<slot, thread>>
  thr,                \* per OpenMP thread: position and locals
  sched,              \* the shared state of the omp work-sharing constructs
  status,             \* where the calling thread is
  factors,            \* tc_model.factors[m], each a flat val_t array (ccd.c)
  residual,           \* pt[tile].vals of the CSF of splatt_tc_ccd
  ws,                 \* tc_ws: numerator[], denominator[]
  dec,                \* history: how often p_init_residual decremented each
                      \* leaf for each column
  hist                \* history of an epoch of splatt_tc_ccd: the tiles a
                      \* mode pass visited, who wrote which cell since the
                      \* last barrier, the loops the epoch completed, the
                      \* calls of tc_converge
ttmc_vars == <<tenout, tenout0, locks_initialized, locks>>
ccd_vars == <<factors, residual, ws, dec, hist>>
vars == <<inp, tenout, tenout0, locks_initialized, locks, thr, sched, status,
          factors, residual, ws, dec, hist>>

\* a call of the TTMc code leaves the completion state alone
NoCcd ==
  factors = <<>> /\ residual = <<>> /\ ws = <<>> /\ dec = <<>> /\ hist = <<>>

-----------------------------------------------------------------------------
(* Bounds of the model *)

\* largest number of nonzeros of a generated tensor
MaxNnz == 2
\* largest team size (SPLATT_OPTION_NTHREADS)
MaxThreads == 2

(* Program constants *)
NLOCKS == 1024
LOCK_STRIDE == 16
OMP_CHUNK == 16

-----------------------------------------------------------------------------
(* Arrays *)

\* a C NULL pointer; no array, because arrays have domain 0..n-1
NULL == << -1 >>

A0(seq) == [x \in 0..(Len(seq) - 1) |-> seq[x + 1]]

ArrLen(a) == Cardinality(DOMAIN a)

RECURSIVE SumSet(_, _)
SumSet(f, S) ==
  IF S = {} THEN 0
  ELSE LET x == CHOOSE y \in S : TRUE IN f[x] + SumSet(f, S \ {x})

RECURSIVE ProdSet(_, _)
ProdSet(f, S) ==
  IF S = {} THEN 1
  ELSE LET x == CHOOSE y \in S : TRUE IN f[x] * ProdSet(f, S \ {x})

SS_MAX(a, b) == IF a > b THEN a ELSE b

-----------------------------------------------------------------------------
(* Coordinate tensors (sptensor_t) and factor matrices (matrix_t) *)

IdPerm(nmodes) == [m \in 0..(nmodes - 1) |-> m]

MaxOf(a) == CHOOSE x \in {a[m] : m \in DOMAIN a} : \A m \in DOMAIN a : a[m] <= x

\* all coordinates of an index space
Coords(nmodes, dims) ==
  {c \in [0..(nmodes - 1) -> 0..(MaxOf(dims) - 1)] : \A m \in 0..(nmodes - 1) : c[m] < dims[m]}

\* the rank of the first L+1 indices of c, taken in the order perm, among all
\* index prefixes of that length (lexicographic order)
RECURSIVE PrefKey(_, _, _, _)
PrefKey(c, perm, L, base) ==
  IF L = 0 THEN c[perm[0]]
  ELSE PrefKey(c, perm, L - 1, base) * base + c[perm[L]]

\* the n-th element of S in the lexicographic order of perm
NthCoord(S, perm, nmodes, base, n) ==
  CHOOSE c \in S :
    Cardinality({d \in S : PrefKey(d, perm, nmodes - 1, base)
                             < PrefKey(c, perm, nmodes - 1, base)}) = n

\* the sptensor_t holding coordinates S, nonzero number n with value n+1
MkCoo(nmodes, dims, S) ==
  LET base == MaxOf(dims) + 1
      nnz  == Cardinality(S)
      at(n) == NthCoord(S, IdPerm(nmodes), nmodes, base, n)
  IN [nmodes |-> nmodes, dims |-> dims, nnz |-> nnz,
      ind  |-> [m \in 0..(nmodes - 1) |-> [n \in 0..(nnz - 1) |-> at(n)[m]]],
      vals |-> [n \in 0..(nnz - 1) |-> n + 1]]

\* the coordinate of nonzero n
CoordOf(tt, n) == [m \in 0..(tt.nmodes - 1) |-> tt.ind[m][n]]

\* spec.md S1: X = {(0,0,0):1, (1,0,0):2, (0,1,2):3}, dims (2,2,3)
TensorS1 ==
  [nmodes |-> 3, dims |-> A0(<<2, 2, 3>>), nnz |-> 3,
   ind  |-> A0(<<A0(<<0, 1, 0>>), A0(<<0, 0, 1>>), A0(<<0, 0, 2>>)>>),
   vals |-> A0(<<1, 2, 3>>)]

\* a row-major matrix_t of ones
OnesMat(I, J) == [I |-> I, J |-> J, vals |-> [x \in 0..(I * J - 1) |-> 1]]

\* a row-major matrix_t whose entries differ by row, column and mode
GenMat(m, I, J) ==
  [I |-> I, J |-> J,
   vals |-> [x \in 0..(I * J - 1) |-> 1 + m + 2 * (x \div J) + 3 * (x % J)]]

\* the factor matrices of a call: all ones with 2 columns, or generic with
\* 1, 2, 3, 1, .. columns
MatSets(nmodes, dims) ==
  { [m \in 0..(nmodes - 1) |-> OnesMat(dims[m], 2)],
    [m \in 0..(nmodes - 1) |-> GenMat(m, dims[m], 1 + (m % 3))] }

\* row i of a row-major matrix: mat->vals + (i * mat->J)
MatRow(mat, i) == [c \in 0..(mat.J - 1) |-> mat.vals[i * mat.J + c]]

\* the tensors ttmc_stream is run on: 2, 3 and 4 modes
StreamTensors ==
  {TensorS1}
  \cup {MkCoo(3, A0(<<2, 2, 3>>), S) :
          S \in {T \in SUBSET Coords(3, A0(<<2, 2, 3>>)) : Cardinality(T) <= MaxNnz}}
  \cup {MkCoo(4, A0(<<2, 1, 2, 2>>), S) :
          S \in {T \in SUBSET Coords(4, A0(<<2, 1, 2, 2>>)) : Cardinality(T) <= MaxNnz}}
  \cup {MkCoo(2, A0(<<2, 2>>), S) :
          S \in {T \in SUBSET Coords(2, A0(<<2, 2>>)) : Cardinality(T) <= MaxNnz}}

-----------------------------------------------------------------------------
(* Compressed sparse fiber tensors (splatt_csf).  csf.c is not among the     *)
(* sources: the build follows spec.md 3 and 4.1.                             *)

Perms(nmodes) ==
  {p \in [0..(nmodes - 1) -> 0..(nmodes - 1)] :
     \A a, b \in 0..(nmodes - 1) : a # b => p[a] # p[b]}

\* spec.md 6: the position of mode in dim_perm
csf_mode_depth(mode, dim_perm, nmodes) ==
  CHOOSE d \in 0..(nmodes - 1) : dim_perm[d] = mode

\* ccd.c:54-70
which_depth(csf, m) ==
  LET depth == csf_mode_depth(m, csf.dim_perm, csf.nmodes)
  IN IF depth = 0 THEN "NODE_ROOT"
     ELSE IF depth = csf.nmodes - 1 THEN "NODE_LEAF" ELSE "NODE_INTL"

\* the index prefixes of length L+1 of the nonzeros N of tt: the nodes of
\* tree level L
LevelKeys(tt, N, perm, L, base) ==
  {PrefKey(CoordOf(tt, n), perm, L, base) : n \in N}

RankIn(K, k) == Cardinality({x \in K : x < k})

NthKey(K, n) == CHOOSE k \in K : RankIn(K, k) = n

\* one tile (csf_sparsity) holding the nonzeros N of tt, sorted by perm;
\* a dense root level is stored as a NULL fids[0] when dense_null
MkTile(tt, N, perm, dense_null) ==
  LET nm   == tt.nmodes
      base == MaxOf(tt.dims) + 1
      K(L) == LevelKeys(tt, N, perm, L, base)
      nf   == [L \in 0..(nm - 1) |-> Cardinality(K(L))]
      ids(L) == [x \in 0..(nf[L] - 1) |-> NthKey(K(L), x) % base]
  IN IF N = {}
     THEN [nfibs |-> [L \in 0..(nm - 1) |-> 0],
           fptr  |-> [L \in 0..(nm - 2) |-> NULL],
           fids  |-> [L \in 0..(nm - 1) |-> NULL],
           vals  |-> NULL]
     ELSE [nfibs |-> nf,
           fptr  |-> [L \in 0..(nm - 2) |->
                        [x \in 0..nf[L] |->
                           IF x = nf[L] THEN nf[L + 1]
                           ELSE RankIn(K(L + 1), NthKey(K(L), x) * base)]],
           fids  |-> [L \in 0..(nm - 1) |->
                        IF L = 0 /\ dense_null /\ nf[0] = tt.dims[perm[0]]
                        THEN NULL ELSE ids(L)],
           vals  |-> [x \in 0..(nf[nm - 1] - 1) |->
                        LET n == CHOOSE y \in N :
                                   PrefKey(CoordOf(tt, y), perm, nm - 1, base)
                                     = NthKey(K(nm - 1), x)
                        IN tt.vals[n]]]

\* the tile coordinate of index i along a mode of dim indices cut in td parts
TileCoord(i, dim, td) == (i * td) \div dim

\* the id of the tile of coordinate c: row major, mode 0 slowest (spec.md S5)
RECURSIVE TileIdOf(_, _, _, _)
TileIdOf(c, dims, tile_dims, m) ==
  IF m = 0 THEN TileCoord(c[0], dims[0], tile_dims[0])
  ELSE TileIdOf(c, dims, tile_dims, m - 1) * tile_dims[m]
       + TileCoord(c[m], dims[m], tile_dims[m])

\* the CSF of tt with level order perm.  Untiled: one tile, tile_dims all 1.
MkCsf(tt, perm, which_tile, tile_dims, dense_null) ==
  LET nm == tt.nmodes
      ntiles == ProdSet(tile_dims, 0..(nm - 1))
      inTile(t) == {n \in 0..(tt.nnz - 1) :
                      TileIdOf(CoordOf(tt, n), tt.dims, tile_dims, nm - 1) = t}
  IN [nmodes |-> nm, dims |-> tt.dims, dim_perm |-> perm,
      which_tile |-> which_tile, ntiles |-> ntiles, tile_dims |-> tile_dims,
      pt |-> [t \in 0..(ntiles - 1) |-> MkTile(tt, inTile(t), perm, dense_null)]]

NoTiling(nmodes) == [m \in 0..(nmodes - 1) |-> 1]

-----------------------------------------------------------------------------
(* Output slab *)

\* ttm.c:138 p_ttmc_outncols
p_ttmc_outncols(nfactors, nmodes, mode) ==
  ProdSet(nfactors, (0..(nmodes - 1)) \ {mode})

\* the caller's slab before the call: dims[mode] x outncols cells, zero (g = 0)
\* or stale data (g = 1)
StaleSlab(size, g) == [x \in 0..(size - 1) |-> g * (x + 1)]

\* a p_clear_tenout that leaves the stale data in place
p_clear_tenout_skipped(out, mats, nmodes, mode, dims) == out

\* ttm.c:265 p_clear_tenout
p_clear_tenout(out, mats, nmodes, mode, dims) ==
  LET outsize == dims[mode] * ProdSet([m \in 0..(nmodes - 1) |-> mats[m].J],
                                      (0..(nmodes - 1)) \ {mode})
  IN [x \in DOMAIN out |-> IF x < outsize THEN 0 ELSE out[x]]

\* the cells out[off .. off+n-1]
Slice(out, off, n) == [x \in 0..(n - 1) |-> out[off + x]]

\* out with the cells from off on replaced by blk
Store(out, off, blk) ==
  [x \in DOMAIN out |->
     IF x >= off /\ x < off + ArrLen(blk) THEN blk[x - off] ELSE out[x]]

\* ttm.c:164 p_twovec_outer_prod
p_twovec_outer_prod(rowA, nA, rowB, nB) ==
  [x \in 0..(nA * nB - 1) |-> rowA[x \div nB] * rowB[x % nB]]

\* a p_twovec_outer_prod_accum that lays the block out column by column
p_twovec_outer_prod_accum_swapped(rowA, nA, rowB, nB, out) ==
  [x \in DOMAIN out |->
     IF x < nA * nB THEN out[x] + rowA[x % nA] * rowB[x \div nA] ELSE out[x]]

\* a p_twovec_outer_prod_accum that stores the product instead of adding it
p_twovec_outer_prod_accum_overwrite(rowA, nA, rowB, nB, out) ==
  [x \in DOMAIN out |->
     IF x < nA * nB THEN rowA[x \div nB] * rowB[x % nB] ELSE out[x]]

\* ttm.c:189 p_twovec_outer_prod_accum
p_twovec_outer_prod_accum(rowA, nA, rowB, nB, out) ==
  [x \in DOMAIN out |->
     IF x < nA * nB THEN out[x] + rowA[x \div nB] * rowB[x % nB] ELSE out[x]]

-----------------------------------------------------------------------------
(* Striped locks, ttm.c:20-73 *)

\* ttm.c:30 p_init_locks initialises the slots i*16, i < NLOCKS
SlotInitialized(slot) ==
  /\ locks_initialized
  /\ slot % LOCK_STRIDE = 0
  /\ slot \div LOCK_STRIDE < NLOCKS

\* ttm.c:56, ttm.c:70: the slot p_splatt_set_lock / p_splatt_unset_lock use
p_splatt_lock_slot(id) == (id % NLOCKS) * LOCK_STRIDE

\* omp_set_lock on a slot: blocks while the slot is held.  On a slot that was
\* never initialised the call is undefined: it may work as a lock, or return
\* at once without excluding anybody.
omp_set_lock(w, slot) ==
  \/ /\ \A h \in locks : h[1] # slot
     /\ locks' = locks \cup {<<slot, w>>}
  \/ /\ ~SlotInitialized(slot)
     /\ locks' = locks

omp_unset_lock(w, slot) == locks' = locks \ {<<slot, w>>}

-----------------------------------------------------------------------------
(* ttmc_stream, ttm.c:797-889 *)

\* ttm.c:841-842
first_mode(mode) == IF mode = 0 THEN 1 ELSE 0
last_mode(nmodes, mode) == IF mode = nmodes - 1 THEN nmodes - 2 ELSE nmodes - 1

\* ttm.c:849-855: the buffer of the last mode, vals[n] * last_row
StreamFirstBuff(tt, mats, mode, n) ==
  LET lm == last_mode(tt.nmodes, mode)
      last_row == MatRow(mats[lm], tt.ind[lm][n])
  IN [f \in 0..(mats[lm].J - 1) |-> tt.vals[n] * last_row[f]]

\* ttm.c:858-882, the loop `for(m=last_mode; m-- != 0; )` entered with loop
\* variable m, current buffer curr_buff of buff_size cells.  The result is the
\* accumulation the loop makes into the output row (ttm.c:870-876), or
\* hit = FALSE when the loop ends without making one.  After the accumulation
\* only m = mode can follow, which the loop skips.
RECURSIVE StreamLoop(_, _, _, _, _, _, _)
StreamLoop(tt, mats, mode, n, m, curr_buff, buff_size) ==
  IF m = 0
  THEN [hit |-> FALSE, rowA |-> <<>>, nA |-> 0, rowB |-> <<>>, nB |-> 0]
  ELSE LET mm == m - 1
           row == MatRow(mats[mm], tt.ind[mm][n])
       IN IF mm = mode
          THEN StreamLoop(tt, mats, mode, n, mm, curr_buff, buff_size)
          ELSE IF mm # first_mode(mode)
          THEN StreamLoop(tt, mats, mode, n, mm,
                          p_twovec_outer_prod(row, mats[mm].J, curr_buff, buff_size),
                          buff_size * mats[mm].J)
          ELSE [hit |-> TRUE, rowA |-> row, nA |-> mats[mm].J,
                rowB |-> curr_buff, nB |-> buff_size]

\* what ttmc_stream accumulates for nonzero n
StreamAccum(tt, mats, mode, n) ==
  LET lm == last_mode(tt.nmodes, mode)
  IN StreamLoop(tt, mats, mode, n, lm,
                StreamFirstBuff(tt, mats, mode, n), mats[lm].J)

\* ttm.c:817-837 total_cols
StreamTotalCols(tt, mats, mode) ==
  p_ttmc_outncols([m \in 0..(tt.nmodes - 1) |-> mats[m].J], tt.nmodes, mode)

\* `#pragma omp for schedule(static)` (ttm.c:844): thread tid of nth runs the
\* contiguous iterations StaticLo .. StaticHi-1 of 0..N-1
StaticLo(tid, nth, N) ==
  tid * (N \div nth) + (IF tid < N % nth THEN tid ELSE N % nth)
StaticHi(tid, nth, N) ==
  StaticLo(tid, nth, N) + (N \div nth) + (IF tid < N % nth THEN 1 ELSE 0)

Threads == 0..(inp.nthreads - 1)

\* no kernel chosen, no work shared out, nothing allocated or returned;
\* scratch[s] is the number of val_t values region s of each thread's
\* thd_info holds, for the regions that were allocated
NoSched ==
  [kern |-> "none", t |-> 0, next |-> 0, thds |-> "none", ret |-> "none",
   scratch |-> <<>>]

\* thd_init(nthreads, nscratch, bytes...) (thd_info.c, not among the sources;
\* spec.md 4.3): every thread gets nscratch regions, region s of the size
\* that the call names for it
thd_init(nscratch, sizes) == [s \in 0..(nscratch - 1) |-> sizes[s]]

\* ttm.c:90-101: maxcols, the largest column count of the matrices
ttmc_maxcols(mats, nmodes) == MaxOf([m \in 0..(nmodes - 1) |-> mats[m].J])

\* the thread structures of a caller that enters a 3-mode kernel directly:
\* three regions, each with room for every fiber of the tensor
CallerScratch(tt, mats) ==
  LET maxcols == ttmc_maxcols(mats, tt.nmodes)
  IN thd_init(3, [s \in 0..2 |-> tt.nnz * maxcols])

IdleThread == [pc |-> "idle", i |-> 0, hi |-> 0, f |-> 0, jj |-> 0, tmp |-> <<>>]

\* the output row of the nonzero thread w is at
StreamRow(w) == inp.tt.ind[inp.mode][thr[w].i]

\* ttm.c:804-811: initialise the locks, zero the slab, open the parallel region
StreamCall ==
  /\ inp.fn = "ttmc_stream"
  /\ status = "called"
  /\ locks_initialized' = TRUE
  /\ tenout' = p_clear_tenout(tenout, inp.mats, inp.tt.nmodes, inp.mode, inp.tt.dims)
  /\ thr' = [w \in Threads |->
               [IdleThread EXCEPT !.pc = "for",
                                  !.i = StaticLo(w, inp.nthreads, inp.tt.nnz),
                                  !.hi = StaticHi(w, inp.nthreads, inp.tt.nnz)]]
  /\ status' = "parallel"
  /\ UNCHANGED <<ccd_vars, inp, tenout0, locks, sched>>

\* ttm.c:845-868: the next nonzero, up to the point where it takes the lock
StreamIter(w) ==
  /\ inp.fn = "ttmc_stream"
  /\ thr[w].pc = "for"
  /\ thr[w].i < thr[w].hi
  /\ IF StreamAccum(inp.tt, inp.mats, inp.mode, thr[w].i).hit
     THEN thr' = [thr EXCEPT ![w].pc = "set_lock"]
     ELSE thr' = [thr EXCEPT ![w].i = @ + 1]
  /\ UNCHANGED <<ccd_vars, inp, tenout, tenout0, locks_initialized, locks, sched, status>>

\* ttm.c:870 p_splatt_set_lock(tt->ind[mode][n])
StreamSetLock(w) ==
  /\ inp.fn = "ttmc_stream"
  /\ thr[w].pc = "set_lock"
  /\ omp_set_lock(w, p_splatt_lock_slot(StreamRow(w)))
  /\ thr' = [thr EXCEPT ![w].pc = "accum_load"]
  /\ UNCHANGED <<ccd_vars, inp, tenout, tenout0, locks_initialized, sched, status>>

\* ttm.c:872-875: the loads of `orow[j] += ...`
StreamAccumLoad(w) ==
  /\ inp.fn = "ttmc_stream"
  /\ thr[w].pc = "accum_load"
  /\ LET tc == StreamTotalCols(inp.tt, inp.mats, inp.mode)
     IN thr' = [thr EXCEPT ![w].pc = "accum_store",
                           ![w].tmp = Slice(tenout, StreamRow(w) * tc, tc)]
  /\ UNCHANGED <<ccd_vars, inp, tenout, tenout0, locks_initialized, locks, sched, status>>

\* ttm.c:872-875: the stores of `orow[j] += ...`
StreamAccumStore(w) ==
  /\ inp.fn = "ttmc_stream"
  /\ thr[w].pc = "accum_store"
  /\ LET tc == StreamTotalCols(inp.tt, inp.mats, inp.mode)
         a  == StreamAccum(inp.tt, inp.mats, inp.mode, thr[w].i)
     IN tenout' = Store(tenout, StreamRow(w) * tc,
                        p_twovec_outer_prod_accum(a.rowA, a.nA, a.rowB, a.nB, thr[w].tmp))
  /\ thr' = [thr EXCEPT ![w].pc = "unset_lock", ![w].tmp = <<>>]
  /\ UNCHANGED <<ccd_vars, inp, tenout0, locks_initialized, locks, sched, status>>

\* ttm.c:876 p_splatt_unset_lock(tt->ind[mode][n]), and the next iteration
StreamUnsetLock(w) ==
  /\ inp.fn = "ttmc_stream"
  /\ thr[w].pc = "unset_lock"
  /\ omp_unset_lock(w, p_splatt_lock_slot(StreamRow(w)))
  /\ thr' = [thr EXCEPT ![w].pc = "for", ![w].i = @ + 1]
  /\ UNCHANGED <<ccd_vars, inp, tenout, tenout0, locks_initialized, sched, status>>

\* ttm.c:883: the loop is over; the thread waits at the barrier of omp for
StreamForEnd(w) ==
  /\ inp.fn = "ttmc_stream"
  /\ thr[w].pc = "for"
  /\ thr[w].i >= thr[w].hi
  /\ thr' = [thr EXCEPT ![w].pc = "barrier"]
  /\ UNCHANGED <<ccd_vars, inp, tenout, tenout0, locks_initialized, locks, sched, status>>

\* ttm.c:885-889: buffers freed, the region joins, ttmc_stream returns
StreamReturn ==
  /\ inp.fn = "ttmc_stream"
  /\ status = "parallel"
  /\ \A w \in Threads : thr[w].pc = "barrier"
  /\ thr' = [w \in Threads |-> [thr[w] EXCEPT !.pc = "done"]]
  /\ status' = "returned"
  /\ UNCHANGED <<ccd_vars, inp, tenout, tenout0, locks_initialized, locks, sched>>

\* the calls of ttmc_stream: tensor, factor matrices, output mode, team size,
\* stale slab; the locks may be left initialised by an earlier call
StreamInit ==
  /\ NoCcd
  /\ \E tt \in StreamTensors :
     \E mats \in MatSets(tt.nmodes, tt.dims) :
     \E mode \in 0..(tt.nmodes - 1) :
     \E nth \in 1..MaxThreads :
       /\ inp = [fn |-> "ttmc_stream", tt |-> tt, mats |-> mats, mode |-> mode,
                 nthreads |-> nth]
       /\ tenout = StaleSlab(tt.dims[mode] * StreamTotalCols(tt, mats, mode), 1)
       /\ thr = [w \in 0..(nth - 1) |-> IdleThread]
  /\ tenout0 = tenout
  /\ locks_initialized \in BOOLEAN
  /\ locks = {}
  /\ sched = NoSched
  /\ status = "called"

StreamNext ==
  \/ StreamCall
  \/ \E w \in Threads : StreamIter(w)
  \/ \E w \in Threads : StreamSetLock(w)
  \/ \E w \in Threads : StreamAccumLoad(w)
  \/ \E w \in Threads : StreamAccumStore(w)
  \/ \E w \in Threads : StreamUnsetLock(w)
  \/ \E w \in Threads : StreamForEnd(w)
  \/ StreamReturn

SpecStream == StreamInit /\ [][StreamNext]_vars

-----------------------------------------------------------------------------
(* The 3-mode CSF kernels, ttm.c:292-525 *)

\* the representation and the tile the running kernel works on
RunCsf == inp.tensors[sched.t]
RunTile == RunCsf.pt[0]

\* ttm.c:331, 419, 499: fid = (sids == NULL) ? s : sids[s]
SliceFid(tile, s) == IF tile.fids[0] = NULL THEN s ELSE tile.fids[0][s]

\* ttm.c:342-357, 426-441: the nonzeros of fiber f reduced into accum_nnz,
\* the sum over the fiber of vals[jj] * B[inds[jj], :]
FiberAccum(tile, B, f) ==
  [r \in 0..(B.J - 1) |->
     SumSet([jj \in tile.fptr[1][f]..(tile.fptr[1][f + 1] - 1) |->
               tile.vals[jj] * B.vals[tile.fids[2][jj] * B.J + r]],
            tile.fptr[1][f]..(tile.fptr[1][f + 1] - 1))]

\* ttm.c:246-251 p_twovec_outer_prod_tiled (the path without BLAS), from
\* fiber f on
RECURSIVE p_twovec_outer_prod_tiled(_, _, _, _, _, _, _)
p_twovec_outer_prod_tiled(fids_buf, ncol_fids, accums_buf, ncol_accums, nfibers, f, out) ==
  IF f >= nfibers THEN out
  ELSE p_twovec_outer_prod_tiled(fids_buf, ncol_fids, accums_buf, ncol_accums,
         nfibers, f + 1,
         p_twovec_outer_prod_accum(Slice(fids_buf, f * ncol_fids, ncol_fids), ncol_fids,
                                   Slice(accums_buf, f * ncol_accums, ncol_accums),
                                   ncol_accums, out))

\* ttm.c:338-379: slice s of p_csf_ttmc_root3 (TTM_TILED) applied to the
\* output block outv: A = mats[dim_perm[1]], B = mats[dim_perm[2]]
Root3Slice(csf, tile, mats, s, outv) ==
  LET A == mats[csf.dim_perm[1]]
      B == mats[csf.dim_perm[2]]
      first  == tile.fptr[0][s]
      naccum == tile.fptr[0][s + 1] - first
      accum_nnz_raw == [x \in 0..(naccum * B.J - 1) |->
                          FiberAccum(tile, B, first + (x \div B.J))[x % B.J]]
      accum_fids  == [r \in 0..(naccum - 1) |-> tile.fids[1][first + r]]
      accum_oprod == [x \in 0..(naccum * A.J - 1) |->
                        A.vals[accum_fids[x \div A.J] * A.J + (x % A.J)]]
  IN p_twovec_outer_prod_tiled(accum_oprod, A.J, accum_nnz_raw, B.J, naccum, 0, outv)

\* ttm.c:421-446: fiber f of slice s of p_csf_ttmc_intl3 applied to the
\* output block outv: A = mats[dim_perm[0]], B = mats[dim_perm[2]]
Intl3Fiber(csf, tile, mats, s, f, outv) ==
  LET A == mats[csf.dim_perm[0]]
      B == mats[csf.dim_perm[2]]
  IN p_twovec_outer_prod_accum(MatRow(A, SliceFid(tile, s)), A.J,
                               FiberAccum(tile, B, f), B.J, outv)

\* ttm.c:502-518: nonzero jj of fiber f of slice s of p_csf_ttmc_leaf3 applied
\* to the output block outv: A = mats[dim_perm[0]], B = mats[dim_perm[1]]
Leaf3Nnz(csf, tile, mats, s, f, jj, outv) ==
  LET A == mats[csf.dim_perm[0]]
      B == mats[csf.dim_perm[1]]
      accum_oprod == p_twovec_outer_prod(MatRow(A, SliceFid(tile, s)), A.J,
                                         MatRow(B, tile.fids[1][f]), B.J)
  IN [r \in DOMAIN outv |->
        IF r < A.J * B.J THEN outv[r] + tile.vals[jj] * accum_oprod[r] ELSE outv[r]]

\* the number of cells of one output row of the running kernel: rankA * rankB
RowCells == StreamTotalCols(inp.tt, inp.mats, inp.mode)

\* the lock slot of the internal and leaf kernels for output index o:
\* ttm.c:445, 447, 515, 519 `locks + (o % NLOCKS)`
csf_lock_slot(o) == o % NLOCKS

\* `#pragma omp for schedule(dynamic, 16) nowait` handing out chunks that all
\* run to the last slice
OmpForClaim_overlapping(w) ==
  /\ status = "parallel"
  /\ thr[w].pc = "omp_for"
  /\ LET nslices == RunTile.nfibs[0]
     IN IF sched.next < nslices
        THEN /\ thr' = [thr EXCEPT ![w].pc = "slice", ![w].i = sched.next,
                          ![w].hi = nslices]
             /\ sched' = [sched EXCEPT !.next =
                            IF sched.next + OMP_CHUNK < nslices
                            THEN sched.next + OMP_CHUNK ELSE nslices]
        ELSE /\ thr' = [thr EXCEPT ![w].pc = "end"]
             /\ sched' = sched
  /\ UNCHANGED <<ccd_vars, inp, tenout, tenout0, locks_initialized, locks, status>>

\* `#pragma omp for schedule(dynamic, 16) nowait` (ttm.c:329, 417, 497, 584):
\* the thread takes the next chunk of OMP_CHUNK slices, or leaves the loop
OmpForClaim(w) ==
  /\ status = "parallel"
  /\ thr[w].pc = "omp_for"
  /\ LET nslices == RunTile.nfibs[0]
     IN IF sched.next < nslices
        THEN /\ thr' = [thr EXCEPT ![w].pc = "slice", ![w].i = sched.next,
                          ![w].hi = IF sched.next + OMP_CHUNK < nslices
                                    THEN sched.next + OMP_CHUNK ELSE nslices]
             /\ sched' = [sched EXCEPT !.next = thr'[w].hi]
        ELSE /\ thr' = [thr EXCEPT ![w].pc = "end"]
             /\ sched' = sched
  /\ UNCHANGED <<ccd_vars, inp, tenout, tenout0, locks_initialized, locks, status>>

\* the chunk is done: back to the work-sharing construct for the next one
ChunkEnd(w) ==
  /\ status = "parallel"
  /\ thr[w].pc = "slice"
  /\ thr[w].i >= thr[w].hi
  /\ thr' = [thr EXCEPT ![w].pc = "omp_for"]
  /\ UNCHANGED <<ccd_vars, inp, tenout, tenout0, locks_initialized, locks, sched, status>>

\* ttm.c:330-378, the loads of slice s of p_csf_ttmc_root3
Root3Load(w) ==
  /\ status = "parallel" /\ sched.kern = "p_csf_ttmc_root3"
  /\ thr[w].pc = "slice"
  /\ thr[w].i < thr[w].hi
  /\ thr' = [thr EXCEPT ![w].pc = "root3_store",
                        ![w].tmp = Slice(tenout, SliceFid(RunTile, thr[w].i) * RowCells,
                                         RowCells)]
  /\ UNCHANGED <<ccd_vars, inp, tenout, tenout0, locks_initialized, locks, sched, status>>

\* ttm.c:330-378, the stores of slice s of p_csf_ttmc_root3; no lock
Root3Store(w) ==
  /\ status = "parallel" /\ sched.kern = "p_csf_ttmc_root3"
  /\ thr[w].pc = "root3_store"
  /\ tenout' = Store(tenout, SliceFid(RunTile, thr[w].i) * RowCells,
                     Root3Slice(RunCsf, RunTile, inp.mats, thr[w].i, thr[w].tmp))
  /\ thr' = [thr EXCEPT ![w].pc = "slice", ![w].i = @ + 1, ![w].tmp = <<>>]
  /\ UNCHANGED <<ccd_vars, inp, tenout0, locks_initialized, locks, sched, status>>

\* ttm.c:418-424, 498-505: the next slice of the internal and leaf kernels
Csf3Slice(w) ==
  /\ status = "parallel"
  /\ sched.kern \in {"p_csf_ttmc_intl3", "p_csf_ttmc_leaf3"}
  /\ thr[w].pc = "slice"
  /\ thr[w].i < thr[w].hi
  /\ thr' = [thr EXCEPT ![w].pc = "fiber", ![w].f = RunTile.fptr[0][thr[w].i]]
  /\ UNCHANGED <<ccd_vars, inp, tenout, tenout0, locks_initialized, locks, sched, status>>

\* ttm.c:424, 505: the fibers of the slice are done
Csf3SliceEnd(w) ==
  /\ status = "parallel"
  /\ thr[w].pc = "fiber"
  /\ thr[w].f >= RunTile.fptr[0][thr[w].i + 1]
  /\ thr' = [thr EXCEPT ![w].pc = "slice", ![w].i = @ + 1]
  /\ UNCHANGED <<ccd_vars, inp, tenout, tenout0, locks_initialized, locks, sched, status>>

\* the output index of the fiber thread w is at (internal kernel)
Intl3Row(w) == RunTile.fids[1][thr[w].f]

\* ttm.c:426-445: reduce the fiber, then omp_set_lock(locks + (fids[f] % NLOCKS))
Intl3SetLock(w) ==
  /\ status = "parallel" /\ sched.kern = "p_csf_ttmc_intl3"
  /\ thr[w].pc = "fiber"
  /\ thr[w].f < RunTile.fptr[0][thr[w].i + 1]
  /\ omp_set_lock(w, csf_lock_slot(Intl3Row(w)))
  /\ thr' = [thr EXCEPT ![w].pc = "intl3_load"]
  /\ UNCHANGED <<ccd_vars, inp, tenout, tenout0, locks_initialized, sched, status>>

\* ttm.c:445 on a slot that omp_init_lock never saw: besides the outcomes of
\* omp_set_lock above, the undefined call may fault and end the process
Intl3LockFault(w) ==
  /\ status = "parallel" /\ sched.kern = "p_csf_ttmc_intl3"
  /\ thr[w].pc = "fiber"
  /\ thr[w].f < RunTile.fptr[0][thr[w].i + 1]
  /\ ~SlotInitialized(csf_lock_slot(Intl3Row(w)))
  /\ status' = "crashed"
  /\ UNCHANGED <<ccd_vars, inp, tenout, tenout0, locks_initialized, locks, thr, sched>>

\* ttm.c:446: the loads of p_twovec_outer_prod_accum
Intl3Load(w) ==
  /\ status = "parallel"
  /\ thr[w].pc = "intl3_load"
  /\ thr' = [thr EXCEPT ![w].pc = "intl3_store",
                        ![w].tmp = Slice(tenout, Intl3Row(w) * RowCells, RowCells)]
  /\ UNCHANGED <<ccd_vars, inp, tenout, tenout0, locks_initialized, locks, sched, status>>

\* ttm.c:446: the stores of p_twovec_outer_prod_accum
Intl3Store(w) ==
  /\ status = "parallel"
  /\ thr[w].pc = "intl3_store"
  /\ tenout' = Store(tenout, Intl3Row(w) * RowCells,
                     Intl3Fiber(RunCsf, RunTile, inp.mats, thr[w].i, thr[w].f, thr[w].tmp))
  /\ thr' = [thr EXCEPT ![w].pc = "intl3_unset", ![w].tmp = <<>>]
  /\ UNCHANGED <<ccd_vars, inp, tenout0, locks_initialized, locks, sched, status>>

\* ttm.c:447 omp_unset_lock(locks + (fids[f] % NLOCKS)), and the next fiber
Intl3Unset(w) ==
  /\ status = "parallel"
  /\ thr[w].pc = "intl3_unset"
  /\ omp_unset_lock(w, csf_lock_slot(Intl3Row(w)))
  /\ thr' = [thr EXCEPT ![w].pc = "fiber", ![w].f = @ + 1]
  /\ UNCHANGED <<ccd_vars, inp, tenout, tenout0, locks_initialized, sched, status>>

\* ttm.c:505-512: the outer product of the fiber, then its first nonzero
Leaf3Fiber(w) ==
  /\ status = "parallel" /\ sched.kern = "p_csf_ttmc_leaf3"
  /\ thr[w].pc = "fiber"
  /\ thr[w].f < RunTile.fptr[0][thr[w].i + 1]
  /\ thr' = [thr EXCEPT ![w].pc = "nnz", ![w].jj = RunTile.fptr[1][thr[w].f]]
  /\ UNCHANGED <<ccd_vars, inp, tenout, tenout0, locks_initialized, locks, sched, status>>

\* ttm.c:512: the nonzeros of the fiber are done
Leaf3FiberEnd(w) ==
  /\ status = "parallel"
  /\ thr[w].pc = "nnz"
  /\ thr[w].jj >= RunTile.fptr[1][thr[w].f + 1]
  /\ thr' = [thr EXCEPT ![w].pc = "fiber", ![w].f = @ + 1]
  /\ UNCHANGED <<ccd_vars, inp, tenout, tenout0, locks_initialized, locks, sched, status>>

\* the output index of the nonzero thread w is at (leaf kernel)
Leaf3Row(w) == RunTile.fids[2][thr[w].jj]

\* ttm.c:515 omp_set_lock(locks + (inds[jj] % NLOCKS))
Leaf3SetLock(w) ==
  /\ status = "parallel"
  /\ thr[w].pc = "nnz"
  /\ thr[w].jj < RunTile.fptr[1][thr[w].f + 1]
  /\ omp_set_lock(w, csf_lock_slot(Leaf3Row(w)))
  /\ thr' = [thr EXCEPT ![w].pc = "leaf3_load"]
  /\ UNCHANGED <<ccd_vars, inp, tenout, tenout0, locks_initialized, sched, status>>

\* ttm.c:515 on a slot that omp_init_lock never saw: besides the outcomes of
\* omp_set_lock above, the undefined call may fault and end the process
Leaf3LockFault(w) ==
  /\ status = "parallel"
  /\ thr[w].pc = "nnz"
  /\ thr[w].jj < RunTile.fptr[1][thr[w].f + 1]
  /\ ~SlotInitialized(csf_lock_slot(Leaf3Row(w)))
  /\ status' = "crashed"
  /\ UNCHANGED <<ccd_vars, inp, tenout, tenout0, locks_initialized, locks, thr, sched>>

\* ttm.c:516-518: the loads of `outv[r] += v * accum_oprod[r]`
Leaf3Load(w) ==
  /\ status = "parallel"
  /\ thr[w].pc = "leaf3_load"
  /\ thr' = [thr EXCEPT ![w].pc = "leaf3_store",
                        ![w].tmp = Slice(tenout, Leaf3Row(w) * RowCells, RowCells)]
  /\ UNCHANGED <<ccd_vars, inp, tenout, tenout0, locks_initialized, locks, sched, status>>

\* ttm.c:516-518: the stores of `outv[r] += v * accum_oprod[r]`
Leaf3Store(w) ==
  /\ status = "parallel"
  /\ thr[w].pc = "leaf3_store"
  /\ tenout' = Store(tenout, Leaf3Row(w) * RowCells,
                     Leaf3Nnz(RunCsf, RunTile, inp.mats, thr[w].i, thr[w].f,
                              thr[w].jj, thr[w].tmp))
  /\ thr' = [thr EXCEPT ![w].pc = "leaf3_unset", ![w].tmp = <<>>]
  /\ UNCHANGED <<ccd_vars, inp, tenout0, locks_initialized, locks, sched, status>>

\* ttm.c:519 omp_unset_lock(locks + (inds[jj] % NLOCKS)), and the next nonzero
Leaf3Unset(w) ==
  /\ status = "parallel"
  /\ thr[w].pc = "leaf3_unset"
  /\ omp_unset_lock(w, csf_lock_slot(Leaf3Row(w)))
  /\ thr' = [thr EXCEPT ![w].pc = "nnz", ![w].jj = @ + 1]
  /\ UNCHANGED <<ccd_vars, inp, tenout, tenout0, locks_initialized, sched, status>>

-----------------------------------------------------------------------------
(* What TTMc is to compute (spec.md 4.5): the reference the kernels are held to *)

\* the columns of mode p selected by output column col, the remaining modes
\* taken in the order `order` (outermost first)
RECURSIVE KronDigit(_, _, _, _)
KronDigit(col, order, ncols, k) ==
  \* the digit of position k (1-based) of col in the mixed radix ncols[order[.]]
  IF k = Len(order) THEN col % ncols[order[k]]
  ELSE KronDigit(col \div ncols[order[Len(order)]],
                 SubSeq(order, 1, Len(order) - 1), ncols, k)

\* the modes other than mode, ascending
RECURSIVE OtherModes(_, _, _)
OtherModes(nmodes, mode, m) ==
  IF m = nmodes THEN <<>>
  ELSE (IF m = mode THEN <<>> ELSE <<m>>) \o OtherModes(nmodes, mode, m + 1)

\* sum over the nonzeros with output index i of x times the product of the
\* factor entries U[p][i_p, digit_p(col)], p in order
KronSum(tt, mats, mode, order, i, col) ==
  LET ncols == [m \in 0..(tt.nmodes - 1) |-> mats[m].J]
      term == [n \in 0..(tt.nnz - 1) |->
                 IF tt.ind[mode][n] # i THEN 0
                 ELSE tt.vals[n] *
                      ProdSet([k \in 1..Len(order) |->
                                 mats[order[k]].vals[
                                   tt.ind[order[k]][n] * mats[order[k]].J
                                   + KronDigit(col, order, ncols, k)]],
                              1..Len(order))]
  IN SumSet(term, 0..(tt.nnz - 1))

\* the slab Y of TTMc on `mode` with the Kronecker order `order`
RefSlab(tt, mats, mode, order) ==
  LET tc == StreamTotalCols(tt, mats, mode)
  IN [x \in 0..(tt.dims[mode] * tc - 1) |->
        KronSum(tt, mats, mode, order, x \div tc, x % tc)]

-----------------------------------------------------------------------------
(* Each kernel run on its own by one thread: p_csf_ttmc_root3, _intl3 and    *)
(* _leaf3 on the one tile of an untiled CSF whose slab the caller zeroed,    *)
(* and ttmc_stream.                                                          *)

Kernels3 == {"p_csf_ttmc_root3", "p_csf_ttmc_intl3", "p_csf_ttmc_leaf3"}

\* the level of dim_perm a kernel writes the output rows of
KernelDepth(kern) ==
  IF kern = "p_csf_ttmc_root3" THEN 0
  ELSE IF kern = "p_csf_ttmc_intl3" THEN 1 ELSE 2

\* the 3-mode tensors the kernels are run on
KernTensors ==
  {TensorS1}
  \cup {MkCoo(3, A0(<<2, 2, 3>>), S) :
          S \in {T \in SUBSET Coords(3, A0(<<2, 2, 3>>)) :
                   Cardinality(T) >= 1 /\ Cardinality(T) <= MaxNnz}}

ZeroSlab(size) == [x \in 0..(size - 1) |-> 0]

KernInit ==
  /\ NoCcd
  /\ \/ \E tt \in KernTensors :
        \E mats \in MatSets(3, tt.dims) :
        \E perm \in Perms(3) :
        \E kern \in Kernels3 :
        \E dense_null \in BOOLEAN :
          LET mode == perm[KernelDepth(kern)]
          IN /\ inp = [fn |-> kern, tt |-> tt, mats |-> mats, mode |-> mode,
                       nthreads |-> 1,
                       tensors |-> [t \in {0} |->
                                      MkCsf(tt, perm, "SPLATT_NOTILE", NoTiling(3),
                                            dense_null)]]
             /\ tenout = ZeroSlab(tt.dims[mode] * StreamTotalCols(tt, mats, mode))
             /\ sched = [NoSched EXCEPT !.kern = kern,
                                         !.scratch = CallerScratch(tt, mats)]
             /\ thr = [w \in {0} |-> [IdleThread EXCEPT !.pc = "omp_for"]]
             /\ status = "parallel"
     \/ \E tt \in KernTensors :
        \E mats \in MatSets(3, tt.dims) :
        \E mode \in 0..2 :
        \E g \in {0, 1} :
          /\ inp = [fn |-> "ttmc_stream", tt |-> tt, mats |-> mats, mode |-> mode,
                    nthreads |-> 1]
          /\ tenout = StaleSlab(tt.dims[mode] * StreamTotalCols(tt, mats, mode), g)
          /\ sched = NoSched
          /\ thr = [w \in {0} |-> IdleThread]
          /\ status = "called"
  /\ tenout0 = tenout
  /\ locks_initialized = TRUE
  /\ locks = {}

\* the kernel returns once its thread has left the work-sharing loop
KernReturn ==
  /\ inp.fn \in Kernels3
  /\ status = "parallel"
  /\ \A w \in Threads : thr[w].pc = "end"
  /\ status' = "returned"
  /\ UNCHANGED <<ccd_vars, inp, tenout, tenout0, locks_initialized, locks, thr, sched>>

KernNext ==
  \/ \E w \in Threads : OmpForClaim(w)
  \/ \E w \in Threads : ChunkEnd(w)
  \/ \E w \in Threads : Root3Load(w)
  \/ \E w \in Threads : Root3Store(w)
  \/ \E w \in Threads : Csf3Slice(w)
  \/ \E w \in Threads : Csf3SliceEnd(w)
  \/ \E w \in Threads : Intl3SetLock(w)
  \/ \E w \in Threads : Intl3Load(w)
  \/ \E w \in Threads : Intl3Store(w)
  \/ \E w \in Threads : Intl3Unset(w)
  \/ \E w \in Threads : Leaf3Fiber(w)
  \/ \E w \in Threads : Leaf3FiberEnd(w)
  \/ \E w \in Threads : Leaf3SetLock(w)
  \/ \E w \in Threads : Leaf3Load(w)
  \/ \E w \in Threads : Leaf3Store(w)
  \/ \E w \in Threads : Leaf3Unset(w)
  \/ KernReturn
  \/ StreamNext

SpecKern == KernInit /\ [][KernNext]_vars

\* the modes other than mode in the level order of dim_perm, root first
RECURSIVE RemainingLevels(_, _, _, _)
RemainingLevels(dim_perm, nmodes, mode, L) ==
  IF L = nmodes THEN <<>>
  ELSE (IF dim_perm[L] = mode THEN <<>> ELSE <<dim_perm[L]>>)
       \o RemainingLevels(dim_perm, nmodes, mode, L + 1)

\* C3: in each 3-mode CSF kernel (root, internal, leaf) the output row of
\* index o is a rankA x rankB row-major block, A the factor of the shallower
\* and B of the deeper of the two remaining levels of dim_perm: the cell at
\* offset a*rankB + b of row o is the sum over the nonzeros of output index o
\* of x * A[., a] * B[., b].
C3_Csf3RowLayout ==
  (inp.fn \in Kernels3 /\ status = "returned")
    => tenout = RefSlab(inp.tt, inp.mats, inp.mode,
                        RemainingLevels(inp.tensors[0].dim_perm, 3, inp.mode, 0))

\* a kernel returned on a tensor whose two remaining factors differ in their
\* number of columns and whose output row 0 got two nonzeros
C3_Witness ==
  /\ inp.fn \in Kernels3 /\ status = "returned"
  /\ LET o == RemainingLevels(inp.tensors[0].dim_perm, 3, inp.mode, 0)
     IN /\ inp.mats[o[1]].J > inp.mats[o[2]].J
        /\ o[1] > o[2]
  /\ inp.tt.nnz = 2
  /\ inp.tt.ind[inp.mode][0] = 0 /\ inp.tt.ind[inp.mode][1] = 0
  /\ \E x \in DOMAIN tenout : tenout[x] # 0

\* spec.md S1 run on mode 0 by ttmc_stream or by the root kernel
S1Run ==
  /\ inp.fn \in {"ttmc_stream", "p_csf_ttmc_root3"}
  /\ inp.tt = TensorS1
  /\ inp.mats = [m \in 0..2 |-> OnesMat(TensorS1.dims[m], 2)]
  /\ inp.mode = 0
  /\ status = "returned"

\* C4 as stated: for X = {(0,0,0):1, (1,0,0):2, (0,1,2):3}, dims (2,2,3) and
\* rank-2 factors of ones, TTMc on mode 0 yields Y[0,:] = (2,2,2,2) and
\* Y[1,:] = (2,2,2,2).
C4_AsStated ==
  S1Run => tenout = A0(<<2, 2, 2, 2, 2, 2, 2, 2>>)

\* C4 amended: on that input TTMc on mode 0 yields Y[0,:] = (4,4,4,4), the two
\* nonzeros (0,0,0):1 and (0,1,2):3 of output row 0 adding up, and
\* Y[1,:] = (2,2,2,2).
C4_S1Mode0 ==
  S1Run => tenout = A0(<<4, 4, 4, 4, 2, 2, 2, 2>>)

\* the root kernel has returned from S1
C4_Witness ==
  S1Run /\ inp.fn = "p_csf_ttmc_root3"

-----------------------------------------------------------------------------
(* splatt_ttmc and ttmc_csf, ttm.c:80-119 and 633-793 *)

\* csf_alloc (csf.c, not among the sources; spec.md 4.1): ONEMODE is one
\* representation; TWOMODE adds one rooted at the leaf mode of the first;
\* ALLMODE is one representation per mode, rooted at that mode
csf_alloc(tt, alloc, perm, which_tile, tile_dims) ==
  LET rep(p) == MkCsf(tt, p, which_tile, tile_dims, TRUE)
      rooted(m) == [L \in 0..2 |->
                      IF L = 0 THEN m
                      ELSE IF L = 1 THEN (IF m = 0 THEN 1 ELSE 0)
                      ELSE (IF m = 2 THEN 1 ELSE 2)]
  IN IF alloc = "SPLATT_CSF_TWOMODE"
     THEN [t \in 0..1 |-> IF t = 0 THEN rep(perm)
                          ELSE rep([L \in 0..2 |-> perm[(L + 2) % 3]])]
     ELSE IF alloc = "SPLATT_CSF_ALLMODE"
     THEN [t \in 0..2 |-> rep(rooted(t))]
     ELSE [t \in {0} |-> rep(perm)]

\* a tensor of 17 slices, more than one chunk of the dynamic schedule: the
\* nonzeros (i, (i*b) % 2, 0), i < 16, and the nonzeros of E in slice 16
WideTensor(b, E) ==
  LET dims == A0(<<17, 2, 2>>)
      S == {[m \in 0..2 |-> IF m = 0 THEN i ELSE IF m = 1 THEN (i * b) % 2 ELSE 0] :
              i \in 0..15}
           \cup {[m \in 0..2 |-> IF m = 0 THEN 16 ELSE e[m]] : e \in E}
      key(c) == (c[0] * 2 + c[1]) * 2 + c[2]
      nnz == Cardinality(S)
      at(n) == CHOOSE c \in S : Cardinality({d \in S : key(d) < key(c)}) = n
  IN [nmodes |-> 3, dims |-> dims, nnz |-> nnz,
      ind  |-> [m \in 0..2 |-> [n \in 0..(nnz - 1) |-> at(n)[m]]],
      vals |-> [n \in 0..(nnz - 1) |-> n + 1]]

GenMats(nmodes, dims) == [m \in 0..(nmodes - 1) |-> GenMat(m, dims[m], 1 + (m % 3))]

CsfAllocs == {"SPLATT_CSF_ONEMODE", "SPLATT_CSF_TWOMODE", "SPLATT_CSF_ALLMODE"}

\* the calls of splatt_ttmc: small tensors under every flavour, level order,
\* output mode and tiling, by two threads (MaxThreads threads for the tensors
\* of one nonzero), and the wide tensors under ONEMODE with one thread for
\* each of their two chunks; the caller's slab holds stale data
TtmcInit ==
  /\ NoCcd
  /\ \/ \E S \in {T \in SUBSET Coords(3, A0(<<2, 2, 2>>)) :
                    Cardinality(T) >= 1 /\ Cardinality(T) <= MaxNnz} :
        \E perm \in Perms(3) :
        \E alloc \in CsfAllocs \cup {"other"} :
        \E which_tile \in {"SPLATT_NOTILE", "SPLATT_DENSETILE"} :
        \E mode \in 0..2 :
          LET tt == MkCoo(3, A0(<<2, 2, 2>>), S)
          IN inp = [fn |-> "splatt_ttmc", tt |-> tt, mats |-> GenMats(3, tt.dims),
                    mode |-> mode,
                    nthreads |-> IF tt.nnz = 1 THEN MaxThreads ELSE 2,
                    alloc |-> alloc,
                    tensors |-> csf_alloc(tt, alloc, perm, which_tile,
                                          IF which_tile = "SPLATT_NOTILE"
                                          THEN NoTiling(3) ELSE A0(<<2, 1, 1>>))]
     \/ \E b \in {0, 1} :
        \E e \in Coords(3, A0(<<1, 2, 2>>)) :
        \E mode \in 0..2 :
          LET tt == WideTensor(b, {e})
          IN inp = [fn |-> "splatt_ttmc", tt |-> tt, mats |-> GenMats(3, tt.dims),
                    mode |-> mode, nthreads |-> 2,
                    alloc |-> "SPLATT_CSF_ONEMODE",
                    tensors |-> csf_alloc(tt, "SPLATT_CSF_ONEMODE", IdPerm(3),
                                          "SPLATT_NOTILE", NoTiling(3))]
  /\ tenout = StaleSlab(inp.tt.dims[inp.mode]
                          * StreamTotalCols(inp.tt, inp.mats, inp.mode), 1)
  /\ tenout0 = tenout
  /\ locks_initialized \in BOOLEAN
  /\ locks = {}
  /\ thr = [w \in 0..(inp.nthreads - 1) |-> IdleThread]
  /\ sched = NoSched
  /\ status = "called"

\* ttm.c:88-110: splatt_ttmc wraps the matrices, allocates the thread
\* structures with thd_init(nthreads, 1, maxcols * sizeof(val_t) + 64), one
\* region of maxcols values and 64 bytes of padding per thread, and calls
\* ttmc_csf
SplattTtmcCall ==
  /\ inp.fn = "splatt_ttmc"
  /\ status = "called"
  /\ sched' = [sched EXCEPT
                 !.thds = "allocated",
                 !.scratch = thd_init(1, [s \in {0} |->
                                            ttmc_maxcols(inp.mats,
                                                         inp.tensors[0].nmodes)])]
  /\ status' = "ttmc_csf"
  /\ UNCHANGED <<ccd_vars, inp, tenout, tenout0, locks_initialized, locks, thr>>

\* ttm.c:756-792 with the leaf and internal branches of ONEMODE exchanged
TtmcVariant_leaf_intl_swapped(tensors, nmodes, mode, which) ==
  LET outdepth == csf_mode_depth(mode, tensors[0].dim_perm, nmodes)
  IN IF which = "SPLATT_CSF_ONEMODE"
     THEN IF outdepth = 0 THEN [decide |-> "p_root_decide", t |-> 0]
          ELSE IF outdepth = nmodes - 1 THEN [decide |-> "p_intl_decide", t |-> 0]
          ELSE [decide |-> "p_leaf_decide", t |-> 0]
     ELSE IF which = "SPLATT_CSF_TWOMODE"
     THEN IF mode = tensors[0].dim_perm[nmodes - 1]
          THEN [decide |-> "p_root_decide", t |-> 1]
          ELSE IF outdepth = 0 THEN [decide |-> "p_root_decide", t |-> 0]
          ELSE [decide |-> "p_intl_decide", t |-> 0]
     ELSE [decide |-> "p_root_decide", t |-> mode]

\* ttm.c:756-792 with TWOMODE sending its leaf mode to the leaf variant of the
\* first representation
TtmcVariant_twomode_leaf(tensors, nmodes, mode, which) ==
  LET outdepth == csf_mode_depth(mode, tensors[0].dim_perm, nmodes)
  IN IF which = "SPLATT_CSF_ONEMODE"
     THEN IF outdepth = 0 THEN [decide |-> "p_root_decide", t |-> 0]
          ELSE IF outdepth = nmodes - 1 THEN [decide |-> "p_leaf_decide", t |-> 0]
          ELSE [decide |-> "p_intl_decide", t |-> 0]
     ELSE IF which = "SPLATT_CSF_TWOMODE"
     THEN IF mode = tensors[0].dim_perm[nmodes - 1]
          THEN [decide |-> "p_leaf_decide", t |-> 0]
          ELSE IF outdepth = 0 THEN [decide |-> "p_root_decide", t |-> 0]
          ELSE [decide |-> "p_intl_decide", t |-> 0]
     ELSE [decide |-> "p_root_decide", t |-> mode]

\* ttm.c:756-792: the kernel and the representation ttmc_csf chooses
TtmcVariant(tensors, nmodes, mode, which) ==
  LET outdepth == csf_mode_depth(mode, tensors[0].dim_perm, nmodes)
  IN IF which = "SPLATT_CSF_ONEMODE"
     THEN IF outdepth = 0 THEN [decide |-> "p_root_decide", t |-> 0]
          ELSE IF outdepth = nmodes - 1 THEN [decide |-> "p_leaf_decide", t |-> 0]
          ELSE [decide |-> "p_intl_decide", t |-> 0]
     ELSE IF which = "SPLATT_CSF_TWOMODE"
     THEN IF mode = tensors[0].dim_perm[nmodes - 1]
          THEN [decide |-> "p_root_decide", t |-> 1]
          ELSE IF outdepth = 0 THEN [decide |-> "p_root_decide", t |-> 0]
          ELSE [decide |-> "p_intl_decide", t |-> 0]
     ELSE [decide |-> "p_root_decide", t |-> mode]

\* ttm.c:744-787: ttmc_csf zeroes the slab, initialises the locks and enters
\* the parallel region of the p_*_decide function it chooses
TtmcCsfDispatch ==
  /\ status = "ttmc_csf"
  /\ inp.alloc \in CsfAllocs
  /\ tenout' = p_clear_tenout(tenout, inp.mats, inp.tensors[0].nmodes, inp.mode,
                              inp.tensors[0].dims)
  /\ locks_initialized' = TRUE
  /\ LET v == TtmcVariant(inp.tensors, inp.tensors[0].nmodes, inp.mode, inp.alloc)
     IN sched' = [sched EXCEPT !.kern = v.decide, !.t = v.t, !.next = 0]
  /\ thr' = [w \in Threads |-> [IdleThread EXCEPT !.pc = "decide"]]
  /\ status' = "parallel"
  /\ UNCHANGED <<ccd_vars, inp, tenout0, locks>>

\* ttm.c:744-748, 789-791: the slab is zeroed, then the default case of the
\* switch ends the process with exit(1)
TtmcCsfBadAlloc ==
  /\ status = "ttmc_csf"
  /\ inp.alloc \notin CsfAllocs
  /\ tenout' = p_clear_tenout(tenout, inp.mats, inp.tensors[0].nmodes, inp.mode,
                              inp.tensors[0].dims)
  /\ locks_initialized' = TRUE
  /\ status' = "exited"
  /\ UNCHANGED <<ccd_vars, inp, tenout0, locks, thr, sched>>

\* the kernel a p_*_decide function calls on an untiled tensor: ttm.c:649,
\* 683, 717.  p_root_decide calls the general p_csf_ttmc_root; its 3-mode
\* short cut to p_csf_ttmc_root3 is compiled out (ttm.c:545-550).
DecideKernel(decide) ==
  IF decide = "p_root_decide" THEN "p_csf_ttmc_root"
  ELSE IF decide = "p_intl_decide" THEN "p_csf_ttmc_intl3"
  ELSE "p_csf_ttmc_leaf3"

\* ttm.c:647-650, 681-684, 715-718: case SPLATT_NOTILE, the thread enters the
\* kernel; the first to do so is recorded as the kernel of the region.
\* p_csf_ttmc_root returns at once on an empty tile (ttm.c:542).
DecideRun(w) ==
  /\ status = "parallel"
  /\ thr[w].pc = "decide"
  /\ RunCsf.which_tile = "SPLATT_NOTILE"
  /\ LET kern == IF sched.kern \in {"p_root_decide", "p_intl_decide", "p_leaf_decide"}
                 THEN DecideKernel(sched.kern) ELSE sched.kern
     IN /\ sched' = [sched EXCEPT !.kern = kern]
        /\ thr' = [thr EXCEPT ![w].pc =
                     IF kern = "p_csf_ttmc_root" /\ RunTile.vals = NULL
                     THEN "end" ELSE "omp_for"]
  /\ UNCHANGED <<ccd_vars, inp, tenout, tenout0, locks_initialized, locks, status>>

\* ttm.c:653-656, 687-690, 721-724: any other tiling, "TTM does not support
\* tiling yet", exit(1): the process ends inside the parallel region
DecideExit(w) ==
  /\ status = "parallel"
  /\ thr[w].pc = "decide"
  /\ RunCsf.which_tile # "SPLATT_NOTILE"
  /\ status' = "exited"
  /\ UNCHANGED <<ccd_vars, inp, tenout, tenout0, locks_initialized, locks, thr, sched>>

\* ttm.c:493, 509: p_csf_ttmc_leaf3 takes accum_oprod from scratch[2] and
\* p_twovec_outer_prod writes rankA * rankB values to it.  Where thd_init
\* allocated no region 2 the pointer is whatever lies behind the allocated
\* ones: the kernel may go on as if it had the memory (Leaf3Fiber), or the
\* write faults and the process ends.
Leaf3ScratchFault(w) ==
  /\ status = "parallel" /\ sched.kern = "p_csf_ttmc_leaf3"
  /\ thr[w].pc = "fiber"
  /\ thr[w].f < RunTile.fptr[0][thr[w].i + 1]
  /\ 2 \notin DOMAIN sched.scratch
  /\ status' = "crashed"
  /\ UNCHANGED <<ccd_vars, inp, tenout, tenout0, locks_initialized, locks, thr, sched>>

\* ttm.c:585-623: a slice of the general p_csf_ttmc_root.  Its arithmetic is
\* commented out and it has no store to tenout.
RootSlice(w) ==
  /\ status = "parallel" /\ sched.kern = "p_csf_ttmc_root"
  /\ thr[w].pc = "slice"
  /\ thr[w].i < thr[w].hi
  /\ thr' = [thr EXCEPT ![w].i = @ + 1]
  /\ UNCHANGED <<ccd_vars, inp, tenout, tenout0, locks_initialized, locks, sched, status>>

\* ttm.c:659, 693, 727: the parallel region joins and ttmc_csf returns
TtmcCsfReturn ==
  /\ inp.fn = "splatt_ttmc"
  /\ status = "parallel"
  /\ \A w \in Threads : thr[w].pc = "end"
  /\ status' = "cleanup"
  /\ UNCHANGED <<ccd_vars, inp, tenout, tenout0, locks_initialized, locks, thr, sched>>

\* ttm.c:112-118: thd_free, the matrix wrappers freed, return SPLATT_SUCCESS
SplattTtmcReturn ==
  /\ status = "cleanup"
  /\ sched' = [sched EXCEPT !.thds = "freed", !.ret = "SPLATT_SUCCESS",
                             !.scratch = <<>>]
  /\ status' = "returned"
  /\ UNCHANGED <<ccd_vars, inp, tenout, tenout0, locks_initialized, locks, thr>>

Next ==
  \/ SplattTtmcCall
  \/ TtmcCsfDispatch
  \/ TtmcCsfBadAlloc
  \/ \E w \in Threads : DecideRun(w)
  \/ \E w \in Threads : DecideExit(w)
  \/ \E w \in Threads : OmpForClaim(w)
  \/ \E w \in Threads : ChunkEnd(w)
  \/ \E w \in Threads : RootSlice(w)
  \/ \E w \in Threads : Csf3Slice(w)
  \/ \E w \in Threads : Csf3SliceEnd(w)
  \/ \E w \in Threads : Intl3SetLock(w)
  \/ \E w \in Threads : Intl3LockFault(w)
  \/ \E w \in Threads : Intl3Load(w)
  \/ \E w \in Threads : Intl3Store(w)
  \/ \E w \in Threads : Intl3Unset(w)
  \/ \E w \in Threads : Leaf3Fiber(w)
  \/ \E w \in Threads : Leaf3ScratchFault(w)
  \/ \E w \in Threads : Leaf3FiberEnd(w)
  \/ \E w \in Threads : Leaf3SetLock(w)
  \/ \E w \in Threads : Leaf3LockFault(w)
  \/ \E w \in Threads : Leaf3Load(w)
  \/ \E w \in Threads : Leaf3Store(w)
  \/ \E w \in Threads : Leaf3Unset(w)
  \/ TtmcCsfReturn
  \/ SplattTtmcReturn

Spec == TtmcInit /\ [][Next]_vars

-----------------------------------------------------------------------------
(* Claims about splatt_ttmc and ttmc_csf *)

\* ttm.c:797-889 run by one thread from nonzero n on: the slab ttmc_stream
\* leaves
RECURSIVE StreamRun(_, _, _, _, _)
StreamRun(tt, mats, mode, n, out) ==
  IF n = tt.nnz THEN out
  ELSE LET a == StreamAccum(tt, mats, mode, n)
           tc == StreamTotalCols(tt, mats, mode)
           off == tt.ind[mode][n] * tc
       IN StreamRun(tt, mats, mode, n + 1,
                    IF a.hit
                    THEN Store(out, off,
                               p_twovec_outer_prod_accum(a.rowA, a.nA, a.rowB, a.nB,
                                                         Slice(out, off, tc)))
                    ELSE out)

StreamOutput(tt, mats, mode) ==
  StreamRun(tt, mats, mode, 0,
            ZeroSlab(tt.dims[mode] * StreamTotalCols(tt, mats, mode)))

\* C2: for the same tensor, matrices and mode, the Y that ttmc_csf produces
\* under ONEMODE, TWOMODE and ALLMODE is elementwise the Y that ttmc_stream
\* produces on the tensor in coordinate form.
C2_FlavorsAgreeWithStream ==
  (inp.fn = "splatt_ttmc" /\ status = "returned")
    => tenout = StreamOutput(inp.tt, inp.mats, inp.mode)

\* C7: when a TTMc call fails on an unsupported configuration, Y holds what
\* it held before the call.
C7_FailureLeavesY ==
  (inp.fn = "splatt_ttmc" /\ status = "exited") => tenout = tenout0

\* C8: on a tensor whose tiling is not SPLATT_NOTILE the call ends by
\* returning to its caller, with a status other than SPLATT_SUCCESS and with
\* the scratch the entry point allocated released.
C8_TiledRejected ==
  (/\ inp.fn = "splatt_ttmc"
   /\ inp.tensors[0].which_tile # "SPLATT_NOTILE"
   /\ status \in {"exited", "returned"})
    => /\ status = "returned"
       /\ sched.ret # "SPLATT_SUCCESS"
       /\ sched.thds = "freed"

\* the threads between taking and releasing a row lock
InLockSection(w) ==
  thr[w].pc \in {"accum_load", "accum_store", "unset_lock",
                 "intl3_load", "intl3_store", "intl3_unset",
                 "leaf3_load", "leaf3_store", "leaf3_unset"}

\* the output row thread w updates in its lock section
LockedRow(w) ==
  IF thr[w].pc \in {"accum_load", "accum_store", "unset_lock"} THEN StreamRow(w)
  ELSE IF thr[w].pc \in {"intl3_load", "intl3_store", "intl3_unset"} THEN Intl3Row(w)
  ELSE Leaf3Row(w)

\* the slot thread w passed to omp_set_lock for its lock section
LockedSlot(w) ==
  IF thr[w].pc \in {"accum_load", "accum_store", "unset_lock"}
  THEN p_splatt_lock_slot(StreamRow(w))
  ELSE csf_lock_slot(LockedRow(w))

\* C9: a kernel that locks output index o uses the slot (o mod NLOCKS) * 16,
\* and that slot was initialised before the first worker entered a kernel.
C9_LockSlotInitialized ==
  \A w \in DOMAIN thr :
    InLockSection(w)
      => /\ LockedSlot(w) = (LockedRow(w) % NLOCKS) * LOCK_STRIDE
         /\ SlotInitialized(LockedSlot(w))

\* C10: in the intl3, leaf3 and streaming kernels no two workers are at the
\* same time inside the read-modify-write of one output row, and the Y the
\* call returns is that of a run by one worker.
C10_RowUpdatesExclusive ==
  /\ \A w, v \in DOMAIN thr :
       (w # v /\ InLockSection(w) /\ InLockSection(v)
        /\ thr[w].pc \notin {"unset_lock", "intl3_unset", "leaf3_unset"}
        /\ thr[v].pc \notin {"unset_lock", "intl3_unset", "leaf3_unset"})
         => LockedRow(w) # LockedRow(v)
  /\ (/\ inp.fn = "splatt_ttmc" /\ status = "returned"
      /\ sched.kern \in {"p_csf_ttmc_intl3", "p_csf_ttmc_leaf3"})
       => tenout = RefSlab(inp.tt, inp.mats, inp.mode,
                           RemainingLevels(RunCsf.dim_perm, 3, inp.mode, 0))

-----------------------------------------------------------------------------
(* Claims about the dispatch of ttmc_csf *)

\* the variant a p_*_decide function or a kernel belongs to
KernVariant(kern) ==
  IF kern \in {"p_root_decide", "p_csf_ttmc_root", "p_csf_ttmc_root3"} THEN "root"
  ELSE IF kern \in {"p_intl_decide", "p_csf_ttmc_intl3"} THEN "intl"
  ELSE IF kern \in {"p_leaf_decide", "p_csf_ttmc_leaf3"} THEN "leaf"
  ELSE "none"

\* the variant whose code thread w is inside, "any" where the code is shared
ThreadVariant(w) ==
  IF thr[w].pc \in {"intl3_load", "intl3_store", "intl3_unset"} THEN "intl"
  ELSE IF thr[w].pc \in {"nnz", "leaf3_load", "leaf3_store", "leaf3_unset"} THEN "leaf"
  ELSE IF thr[w].pc = "root3_store" THEN "root"
  ELSE "any"

\* ttmc_csf has chosen its variant
Dispatched ==
  inp.fn = "splatt_ttmc" /\ status \in {"parallel", "cleanup", "returned"}

\* C11: under SPLATT_CSF_ONEMODE ttmc_csf runs, on tensors[0], the root
\* variant exactly when the depth of the output mode in tensors[0].dim_perm is
\* 0, the leaf variant exactly when it is nmodes-1 (and not 0), the internal
\* variant at every other depth; no thread is ever inside another variant;
\* which_depth of ccd.c gives the same class for the same mode.
C11_OneModeDispatch ==
  (Dispatched /\ inp.alloc = "SPLATT_CSF_ONEMODE")
    => LET nmodes == inp.tensors[0].nmodes
           depth == csf_mode_depth(inp.mode, inp.tensors[0].dim_perm, nmodes)
           v == KernVariant(sched.kern)
       IN /\ sched.t = 0
          /\ v \in {"root", "intl", "leaf"}
          /\ (v = "root") <=> (depth = 0)
          /\ (v = "leaf") <=> (depth = nmodes - 1 /\ depth # 0)
          /\ (v = "intl") <=> (depth # 0 /\ depth # nmodes - 1)
          /\ \A w \in DOMAIN thr : ThreadVariant(w) \in {"any", v}
          /\ which_depth(inp.tensors[0], inp.mode)
               = (IF v = "root" THEN "NODE_ROOT"
                  ELSE IF v = "leaf" THEN "NODE_LEAF" ELSE "NODE_INTL")

\* a ONEMODE call on the leaf mode returned from the leaf variant
C11_Witness ==
  /\ Dispatched /\ inp.alloc = "SPLATT_CSF_ONEMODE" /\ status = "returned"
  /\ sched.kern = "p_csf_ttmc_leaf3"
  /\ inp.mode = inp.tensors[0].dim_perm[2]

\* C12: under SPLATT_CSF_TWOMODE ttmc_csf runs the root variant on
\* tensors[1] exactly when the output mode is tensors[0].dim_perm[nmodes-1],
\* and otherwise the root or the internal variant on tensors[0] by the depth
\* of the mode there; under SPLATT_CSF_ALLMODE it runs the root variant on
\* tensors[mode]; the leaf variant is selected in neither.
C12_TwoAllModeDispatch ==
  /\ (Dispatched /\ inp.alloc = "SPLATT_CSF_TWOMODE")
       => LET nmodes == inp.tensors[0].nmodes
              depth == csf_mode_depth(inp.mode, inp.tensors[0].dim_perm, nmodes)
              v == KernVariant(sched.kern)
          IN /\ (v = "root" /\ sched.t = 1)
                  <=> (inp.mode = inp.tensors[0].dim_perm[nmodes - 1])
             /\ (v = "root" /\ sched.t = 0) <=> (depth = 0)
             /\ (v = "intl" /\ sched.t = 0) <=> (depth # 0 /\ depth # nmodes - 1)
             /\ v \in {"root", "intl"}
             /\ \A w \in DOMAIN thr : ThreadVariant(w) \in {"any", v}
  /\ (Dispatched /\ inp.alloc = "SPLATT_CSF_ALLMODE")
       => /\ KernVariant(sched.kern) = "root"
          /\ sched.t = inp.mode
          /\ \A w \in DOMAIN thr : ThreadVariant(w) = "any"

\* a TWOMODE call on the leaf mode of the first representation returned from
\* the root variant run on the second
C12_Witness ==
  /\ Dispatched /\ inp.alloc = "SPLATT_CSF_TWOMODE" /\ status = "returned"
  /\ inp.mode = inp.tensors[0].dim_perm[2]
  /\ sched.t = 1 /\ sched.kern = "p_csf_ttmc_root"
  /\ inp.tensors[1].dim_perm[0] = inp.mode

-----------------------------------------------------------------------------
(* Claims about ttmc_stream *)

\* C1: for every COO tensor with at least 3 modes, every output mode and all
\* factor matrices, ttmc_stream returns with Y[i,:] equal to the sum over the
\* nonzeros of output index i of x times the Kronecker product of the other
\* modes' factor rows, lowest mode outermost; rows no nonzero touches are zero,
\* whatever the slab held before the call.
C1_StreamComputesKronecker ==
  (inp.fn = "ttmc_stream" /\ status = "returned" /\ inp.tt.nmodes >= 3)
    => tenout = RefSlab(inp.tt, inp.mats, inp.mode,
                        OtherModes(inp.tt.nmodes, inp.mode, 0))

\* a 4-mode call returned: two threads, two nonzeros on one output row, another
\* row untouched, the slab stale before the call
C1_Witness ==
  /\ inp.fn = "ttmc_stream" /\ status = "returned"
  /\ inp.tt.nmodes = 4 /\ inp.nthreads = 2 /\ inp.tt.nnz = 2
  /\ inp.tt.ind[inp.mode][0] = inp.tt.ind[inp.mode][1]
  /\ inp.tt.dims[inp.mode] = 2
  /\ \E x \in DOMAIN tenout0 : tenout0[x] # 0
  /\ \E x \in DOMAIN tenout : tenout[x] > 1

-----------------------------------------------------------------------------
(* CCD tensor completion, completion/ccd.c *)

MaxRank == 2
MaxIts == 2

\* val_t is modelled on the integers, where sums and products are exact; the
\* quotient of ccd.c:400 is the integer quotient rounded toward zero
val_div(a, b) == IF a >= 0 THEN a \div b ELSE -((-a) \div b)

\* ccd.c:276, 280, 289: `avals + (a_id * nfactors)` then `arow[f]`
FactorRowMajor(fac, id, f, nfactors) == fac[id * nfactors + f]

\* ccd.c:90-92, 24-26, 397: `model->factors[m] + (f * I)` then `avals[a_id]`
FactorColMajor(fac, id, f, I) == fac[f * I + id]

\* the leaves of a tile, and of slice i of a tile (fptr[0], fptr[1])
TileLeaves(pt) == IF pt.vals = NULL THEN {} ELSE DOMAIN pt.vals
SliceLeaves(pt, i) ==
  {jj \in TileLeaves(pt) :
     /\ pt.fptr[1][pt.fptr[0][i]] <= jj
     /\ jj < pt.fptr[1][pt.fptr[0][i + 1]]}

\* the fiber and the slice a leaf is under
FibOf(pt, jj) ==
  CHOOSE fib \in 0..(pt.nfibs[1] - 1) :
    pt.fptr[1][fib] <= jj /\ jj < pt.fptr[1][fib + 1]
SliceOf(pt, jj) ==
  CHOOSE i \in 0..(pt.nfibs[0] - 1) :
    pt.fptr[0][i] <= FibOf(pt, jj) /\ FibOf(pt, jj) < pt.fptr[0][i + 1]

\* a_id, fids[fib], inds[jj] of a leaf: its indices at levels 0, 1, 2
LeafIds(pt, jj) ==
  [L \in 0..2 |-> IF L = 0 THEN SliceFid(pt, SliceOf(pt, jj))
                  ELSE IF L = 1 THEN pt.fids[1][FibOf(pt, jj)]
                  ELSE pt.fids[2][jj]]

\* ccd.c:279-292 with only the first column subtracted
p_init_residual_leaf_first(r, avals, bvals, cvals, ids, nfactors) ==
  r - FactorRowMajor(avals, ids[0], 0, nfactors)
        * FactorRowMajor(bvals, ids[1], 0, nfactors)
        * FactorRowMajor(cvals, ids[2], 0, nfactors)

\* ccd.c:279-292: residual[jj] -= predict_buf[f] * crow[f] for each f, with
\* predict_buf[f] = arow[f] * brow[f]
p_init_residual_leaf(r, avals, bvals, cvals, ids, nfactors) ==
  r - SumSet([f \in 0..(nfactors - 1) |->
                (FactorRowMajor(avals, ids[0], f, nfactors)
                   * FactorRowMajor(bvals, ids[1], f, nfactors))
                  * FactorRowMajor(cvals, ids[2], f, nfactors)],
             0..(nfactors - 1))

\* ccd.c:272-294: slice i of a tile in p_init_residual
p_init_residual_slice(csf, pt, fac, nfactors, i, res) ==
  [jj \in DOMAIN res |->
     IF jj \in SliceLeaves(pt, i)
     THEN p_init_residual_leaf(res[jj], fac[csf.dim_perm[0]], fac[csf.dim_perm[1]],
                               fac[csf.dim_perm[2]], LeafIds(pt, jj), nfactors)
     ELSE res[jj]]

CcdThreadIdle == [pc |-> "idle", tile |-> 0, i |-> 0, hi |-> 0, myloss |-> 0, loss |-> 0]
CcdNoSched == [phase |-> "none", e |-> 0, f |-> 0, m |-> 0, next |-> 0, loss |-> 0]

\* ccd.c:266-270: the thread's share of the slices of a tile under
\* `#pragma omp for nowait`, whose schedule is the default one, static
InitShare(w, tile) ==
  IF tile < inp.csf.ntiles
  THEN [CcdThreadIdle EXCEPT
          !.pc = "init", !.tile = tile,
          !.i = StaticLo(w, inp.nthreads, inp.csf.pt[tile].nfibs[0]),
          !.hi = StaticHi(w, inp.nthreads, inp.csf.pt[tile].nfibs[0])]
  ELSE [CcdThreadIdle EXCEPT !.pc = "init_end", !.tile = tile]

\* ccd.c:317-328, 262-266: splatt_tc_ccd builds the CSF (its leaf values are
\* those of the training tensor) and enters the parallel region of
\* p_init_residual.  Called on its own, p_init_residual starts the same way.
CcdCall ==
  /\ inp.fn \in {"splatt_tc_ccd", "p_init_residual"}
  /\ status = "called"
  /\ residual' = [t \in 0..(inp.csf.ntiles - 1) |-> inp.csf.pt[t].vals]
  /\ dec' = [t \in 0..(inp.csf.ntiles - 1) |->
               [jj \in TileLeaves(inp.csf.pt[t]) |-> [f \in 0..(inp.rank - 1) |-> 0]]]
  /\ thr' = [w \in Threads |-> InitShare(w, 0)]
  /\ status' = "p_init_residual"
  /\ UNCHANGED <<ttmc_vars, inp, sched, factors, ws, hist>>

\* ccd.c:272-294: the next slice of the thread's share of its tile
InitSlice(w) ==
  /\ status = "p_init_residual"
  /\ thr[w].pc = "init"
  /\ thr[w].i < thr[w].hi
  /\ LET t == thr[w].tile
         pt == inp.csf.pt[t]
     IN /\ residual' = [residual EXCEPT ![t] =
                          p_init_residual_slice(inp.csf, pt, factors, inp.rank,
                                                thr[w].i, residual[t])]
        /\ dec' = [dec EXCEPT ![t] =
                     [jj \in DOMAIN dec[t] |->
                        IF jj \in SliceLeaves(pt, thr[w].i)
                        THEN [f \in 0..(inp.rank - 1) |-> dec[t][jj][f] + 1]
                        ELSE dec[t][jj]]]
  /\ thr' = [thr EXCEPT ![w].i = @ + 1]
  /\ UNCHANGED <<ttmc_vars, inp, sched, status, factors, ws, hist>>

\* ccd.c:269-271, 295: nowait, the thread goes on to the next tile at once
InitTileEnd(w) ==
  /\ status = "p_init_residual"
  /\ thr[w].pc = "init"
  /\ thr[w].i >= thr[w].hi
  /\ thr' = [thr EXCEPT ![w] = InitShare(w, thr[w].tile + 1)]
  /\ UNCHANGED <<ttmc_vars, ccd_vars, inp, sched, status>>

\* ccd.c:296-301: the parallel region joins, p_init_residual returns
InitReturn ==
  /\ status = "p_init_residual"
  /\ \A w \in Threads : thr[w].pc = "init_end"
  /\ status' = "initialized"
  /\ UNCHANGED <<ttmc_vars, ccd_vars, inp, thr, sched>>

\* ccd.c:90-92 and GRAB_CONST_FACTORS: column f of the factor of level L
ColumnEntry(csf, L, f, id) ==
  FactorColMajor(factors[csf.dim_perm[L]], id, f, inp.dims[csf.dim_perm[L]])

\* ccd.c:101-115: p_update_residual3 on one tile,
\* residual[jj] += mult * aval * bval * cval
p_update_residual3_tile(csf, pt, f, mult, res) ==
  [jj \in DOMAIN res |->
     IF jj \in TileLeaves(pt)
     THEN LET ids == LeafIds(pt, jj)
          IN res[jj] + ((mult * ColumnEntry(csf, 0, f, ids[0]))
                          * ColumnEntry(csf, 1, f, ids[1]))
                         * ColumnEntry(csf, 2, f, ids[2])
     ELSE res[jj]]

\* ccd.c:112: myloss += residual[jj] * residual[jj] over the leaves of a tile
TileLoss(pt, res) ==
  SumSet([jj \in TileLeaves(pt) |-> res[jj] * res[jj]], TileLeaves(pt))

\* the leaves of a tile whose index at level L is o
LeavesAt(pt, L, o) == {jj \in TileLeaves(pt) : LeafIds(pt, jj)[L] = o}

\* ccd.c:126-164: numer[a_id] += residual[jj] * bval * cval and
\* denom[a_id] += sgrad * sgrad with sgrad = bval * cval
p_process_root3(csf, pt, f, res, nd) ==
  LET sgrad(jj) == ColumnEntry(csf, 1, f, LeafIds(pt, jj)[1])
                     * ColumnEntry(csf, 2, f, LeafIds(pt, jj)[2])
      at(o) == LeavesAt(pt, 0, o)
  IN [numerator |-> [o \in DOMAIN nd.numerator |->
                       nd.numerator[o]
                         + SumSet([jj \in at(o) |-> res[jj] * sgrad(jj)], at(o))],
      denominator |-> [o \in DOMAIN nd.denominator |->
                         nd.denominator[o]
                           + SumSet([jj \in at(o) |-> sgrad(jj) * sgrad(jj)], at(o))]]

\* ccd.c:167-206: numer[b_id] += residual[jj] * sgrad and
\* denom[b_id] += sgrad * sgrad with sgrad = aval * cval
p_process_intl3(csf, pt, f, res, nd) ==
  LET sgrad(jj) == ColumnEntry(csf, 0, f, LeafIds(pt, jj)[0])
                     * ColumnEntry(csf, 2, f, LeafIds(pt, jj)[2])
      at(o) == LeavesAt(pt, 1, o)
  IN [numerator |-> [o \in DOMAIN nd.numerator |->
                       nd.numerator[o]
                         + SumSet([jj \in at(o) |-> res[jj] * sgrad(jj)], at(o))],
      denominator |-> [o \in DOMAIN nd.denominator |->
                         nd.denominator[o]
                           + SumSet([jj \in at(o) |-> sgrad(jj) * sgrad(jj)], at(o))]]

\* a leaf routine whose sgrad is bval * cval
p_process_leaf3_root_sgrad(csf, pt, f, res, nd) ==
  LET sgrad(jj) == ColumnEntry(csf, 1, f, LeafIds(pt, jj)[1])
                     * ColumnEntry(csf, 2, f, LeafIds(pt, jj)[2])
      at(o) == LeavesAt(pt, 2, o)
  IN [numerator |-> [o \in DOMAIN nd.numerator |->
                       nd.numerator[o]
                         + SumSet([jj \in at(o) |-> res[jj] * sgrad(jj)], at(o))],
      denominator |-> [o \in DOMAIN nd.denominator |->
                         nd.denominator[o]
                           + SumSet([jj \in at(o) |-> sgrad(jj) * sgrad(jj)], at(o))]]

\* ccd.c:209-249: numer[c_id] += residual[jj] * predict and
\* denom[c_id] += sgrad * sgrad with sgrad = predict = aval * bval
p_process_leaf3(csf, pt, f, res, nd) ==
  LET sgrad(jj) == ColumnEntry(csf, 0, f, LeafIds(pt, jj)[0])
                     * ColumnEntry(csf, 1, f, LeafIds(pt, jj)[1])
      at(o) == LeavesAt(pt, 2, o)
  IN [numerator |-> [o \in DOMAIN nd.numerator |->
                       nd.numerator[o]
                         + SumSet([jj \in at(o) |-> res[jj] * sgrad(jj)], at(o))],
      denominator |-> [o \in DOMAIN nd.denominator |->
                         nd.denominator[o]
                           + SumSet([jj \in at(o) |-> sgrad(jj) * sgrad(jj)], at(o))]]

TILE_BEGIN == -1
TILE_END == -2

\* the coordinate along mode m of tile id: ids are row major, mode 0 slowest
RECURSIVE TileCoordOfId(_, _, _, _, _)
TileCoordOfId(id, tile_dims, nmodes, m, k) ==
  IF k = m THEN id % tile_dims[k]
  ELSE TileCoordOfId(id \div tile_dims[k], tile_dims, nmodes, m, k - 1)

\* get_next_tileid (tile.c, not among the sources; spec.md 4.2): the next
\* tile after tile whose coordinate along mode m is t, or TILE_END
get_next_tileid(tile, tile_dims, nmodes, m, t) ==
  LET ntiles == ProdSet(tile_dims, 0..(nmodes - 1))
      rest == {id \in 0..(ntiles - 1) :
                 /\ id > tile
                 /\ TileCoordOfId(id, tile_dims, nmodes, m, nmodes - 1) = t}
  IN IF rest = {} THEN TILE_END
     ELSE CHOOSE id \in rest : \A o \in rest : id <= o

\* the locals of a thread that starts the loop over the layers at layer 0,
\* whichever thread it is
PhaseShare_all_from_layer0(w, phase, m, old) ==
  [pc |-> "work",
   tile |-> -1,
   i |-> IF phase \in {"nd_init", "update"}
         THEN StaticLo(w, inp.nthreads, inp.dims[m])
         ELSE 0,
   hi |-> IF phase \in {"nd_init", "update"}
          THEN StaticHi(w, inp.nthreads, inp.dims[m]) ELSE 0,
   myloss |-> 0,
   loss |-> old.loss]

\* the locals of thread w as it enters a phase of the epoch's parallel region:
\* its share of the static loops over the rows (ccd.c:364, 398), its first
\* layer of `schedule(static, 1)` (ccd.c:375)
PhaseShare(w, phase, m, old) ==
  [pc |-> "work",
   tile |-> TILE_BEGIN,
   i |-> IF phase \in {"nd_init", "update"}
         THEN StaticLo(w, inp.nthreads, inp.dims[m])
         ELSE IF phase = "process" THEN w ELSE 0,
   hi |-> IF phase \in {"nd_init", "update"}
          THEN StaticHi(w, inp.nthreads, inp.dims[m]) ELSE 0,
   myloss |-> 0,
   loss |-> old.loss]

\* the history before the call
HistStart ==
  [visits |-> <<>>, writers |-> {}, done |-> <<>>, converge |-> <<>>]

\* thread w wrote the cells
HistWrite(h, w, cells) ==
  [h EXCEPT !.writers = @ \cup {<<c, w>> : c \in cells}]

\* a barrier ends the loop of sched.phase: what was written is now visible to
\* all, the loop is completed
HistBarrier(h) ==
  [h EXCEPT !.visits = [t \in 0..(inp.csf.ntiles - 1) |-> 0],
            !.writers = {},
            !.done = Append(@, <<sched.f, sched.phase, sched.m>>)]

\* the indices at level L of the leaves of a tile: the entries of
\* numer[] and denom[] that p_process_* on the tile adds to
TileOutIds(pt, L) == {LeafIds(pt, jj)[L] : jj \in TileLeaves(pt)}

\* ccd.c:335-337: the loss of the initial model is reported and tc_converge
\* called for epoch 0, its result unused; then the first epoch
CcdInitLoss ==
  /\ inp.fn = "splatt_tc_ccd"
  /\ status = "initialized"
  /\ sched' = [CcdNoSched EXCEPT !.e = 1]
  /\ status' = "loop"
  /\ hist' = [hist EXCEPT !.converge = Append(@, <<0, "unused">>)]
  /\ UNCHANGED <<ttmc_vars, factors, residual, ws, dec, inp, thr>>

\* an epoch loop that runs while e < max_its + 2
EpochBegin_one_more ==
  /\ status = "loop"
  /\ sched.e < inp.max_its + 2
  /\ sched' = [sched EXCEPT !.phase = "add", !.f = 0, !.m = 0, !.next = 0, !.loss = 0]
  /\ thr' = [w \in Threads |-> PhaseShare(w, "add", 0, CcdThreadIdle)]
  /\ status' = "epoch"
  /\ hist' = [hist EXCEPT !.visits = [t \in 0..(inp.csf.ntiles - 1) |-> 0],
                          !.writers = {}, !.done = <<>>]
  /\ UNCHANGED <<ttmc_vars, factors, residual, ws, dec, inp>>

\* ccd.c:345-355: epoch e starts; its parallel region opens with loss = 0 and
\* every thread calls p_update_residual3(csf, 0, model, ws, 1)
EpochBegin ==
  /\ status = "loop"
  /\ sched.e < inp.max_its + 1
  /\ sched' = [sched EXCEPT !.phase = "add", !.f = 0, !.m = 0, !.next = 0, !.loss = 0]
  /\ thr' = [w \in Threads |-> PhaseShare(w, "add", 0, CcdThreadIdle)]
  /\ status' = "epoch"
  /\ hist' = [hist EXCEPT !.visits = [t \in 0..(inp.csf.ntiles - 1) |-> 0],
                          !.writers = {}, !.done = <<>>]
  /\ UNCHANGED <<ttmc_vars, factors, residual, ws, dec, inp>>

\* ccd.c:98-115 `#pragma omp for schedule(dynamic)`: the thread takes the
\* next tile and adds (mult = 1) or subtracts (mult = -1) column f on it
ResidualTile(w) ==
  /\ status = "epoch"
  /\ sched.phase \in {"add", "sub"}
  /\ thr[w].pc = "work"
  /\ sched.next < inp.csf.ntiles
  /\ LET t == sched.next
         new == p_update_residual3_tile(inp.csf, inp.csf.pt[t], sched.f,
                                        IF sched.phase = "add" THEN 1 ELSE -1,
                                        residual[t])
     IN /\ residual' = [residual EXCEPT ![t] = new]
        /\ thr' = [thr EXCEPT ![w].tile = t,
                              ![w].myloss = @ + TileLoss(inp.csf.pt[t], new)]
        /\ hist' = HistWrite(hist, w, {<<"vals", t, jj>> :
                                         jj \in TileLeaves(inp.csf.pt[t])})
  /\ sched' = [sched EXCEPT !.next = @ + 1]
  /\ UNCHANGED <<ttmc_vars, inp, status, factors, ws, dec>>

\* the end of p_update_residual3 with every return value added to the
\* thread's loss
ResidualEnd_loss_added(w) ==
  /\ status = "epoch"
  /\ sched.phase \in {"add", "sub"}
  /\ thr[w].pc = "work"
  /\ sched.next >= inp.csf.ntiles
  /\ thr' = [thr EXCEPT ![w].pc = "barrier",
                        ![w].loss = @ + thr[w].myloss]
  /\ UNCHANGED <<ttmc_vars, ccd_vars, inp, sched, status>>

\* ccd.c:116-118: no tile is left; the barrier of the loop, then the return
\* of myloss, which ccd.c:406 assigns to the thread's loss
ResidualEnd(w) ==
  /\ status = "epoch"
  /\ sched.phase \in {"add", "sub"}
  /\ thr[w].pc = "work"
  /\ sched.next >= inp.csf.ntiles
  /\ thr' = [thr EXCEPT ![w].pc = "barrier",
                        ![w].loss = IF sched.phase = "sub" THEN thr[w].myloss ELSE @]
  /\ UNCHANGED <<ttmc_vars, ccd_vars, inp, sched, status>>

\* ccd.c:364-368: the thread's rows of numer[i] = 0, denom[i] = regularization[m]
NumerInit(w) ==
  /\ status = "epoch"
  /\ sched.phase = "nd_init"
  /\ thr[w].pc = "work"
  /\ ws' = [numerator |-> [o \in DOMAIN ws.numerator |->
                             IF thr[w].i <= o /\ o < thr[w].hi
                             THEN 0 ELSE ws.numerator[o]],
            denominator |-> [o \in DOMAIN ws.denominator |->
                               IF thr[w].i <= o /\ o < thr[w].hi
                               THEN inp.regularization[sched.m]
                               ELSE ws.denominator[o]]]
  /\ hist' = HistWrite(hist, w, {<<a, o>> : a \in {"numer", "denom"},
                                           o \in thr[w].i..(thr[w].hi - 1)})
  /\ thr' = [thr EXCEPT ![w].pc = "barrier"]
  /\ UNCHANGED <<ttmc_vars, inp, sched, status, factors, residual, dec>>

\* the walker called with mode 0 in place of m
NextLayerTile_mode0(w) ==
  get_next_tileid(thr[w].tile, inp.csf.tile_dims, inp.csf.nmodes, 0, thr[w].i)

\* ccd.c:375, 392: the tile the thread processes next in its layer thr[w].i
\* of mode m
NextLayerTile(w) ==
  get_next_tileid(thr[w].tile, inp.csf.tile_dims, inp.csf.nmodes, sched.m, thr[w].i)

\* ccd.c:377-394: the next tile of the layer is processed by the routine of
\* the depth of mode m
ProcessTile(w) ==
  /\ status = "epoch"
  /\ sched.phase = "process"
  /\ thr[w].pc = "work"
  /\ thr[w].i < inp.csf.tile_dims[sched.m]
  /\ NextLayerTile(w) # TILE_END
  /\ LET t == NextLayerTile(w)
         which == which_depth(inp.csf, sched.m)
     IN /\ ws' = IF which = "NODE_ROOT"
                 THEN p_process_root3(inp.csf, inp.csf.pt[t], sched.f, residual[t], ws)
                 ELSE IF which = "NODE_INTL"
                 THEN p_process_intl3(inp.csf, inp.csf.pt[t], sched.f, residual[t], ws)
                 ELSE p_process_leaf3(inp.csf, inp.csf.pt[t], sched.f, residual[t], ws)
        /\ hist' = [HistWrite(hist, w,
                       {<<a, o>> : a \in {"numer", "denom"},
                          o \in TileOutIds(inp.csf.pt[t],
                                           csf_mode_depth(sched.m, inp.csf.dim_perm,
                                                          inp.csf.nmodes))})
                      EXCEPT !.visits[t] = @ + 1]
  /\ thr' = [thr EXCEPT ![w].tile = NextLayerTile(w)]
  /\ UNCHANGED <<ttmc_vars, inp, sched, status, factors, residual, dec>>

\* ccd.c:375, 394: the layer is done; `schedule(static, 1)` gives the thread
\* the layer nthreads further on
ProcessLayerEnd(w) ==
  /\ status = "epoch"
  /\ sched.phase = "process"
  /\ thr[w].pc = "work"
  /\ thr[w].i < inp.csf.tile_dims[sched.m]
  /\ NextLayerTile(w) = TILE_END
  /\ thr' = [thr EXCEPT ![w].i = @ + inp.nthreads, ![w].tile = TILE_BEGIN]
  /\ UNCHANGED <<ttmc_vars, ccd_vars, inp, sched, status>>

\* ccd.c:394: the thread has no layer left and waits at the barrier
ProcessEnd(w) ==
  /\ status = "epoch"
  /\ sched.phase = "process"
  /\ thr[w].pc = "work"
  /\ thr[w].i >= inp.csf.tile_dims[sched.m]
  /\ thr' = [thr EXCEPT ![w].pc = "barrier"]
  /\ UNCHANGED <<ttmc_vars, ccd_vars, inp, sched, status>>

\* ccd.c:397-401: avals[i] = numer[i] / denom[i] on the thread's rows, with
\* avals = model->factors[m] + (f * dim)
FactorUpdate(w) ==
  /\ status = "epoch"
  /\ sched.phase = "update"
  /\ thr[w].pc = "work"
  /\ LET dim == inp.dims[sched.m]
     IN factors' = [factors EXCEPT ![sched.m] =
                      [x \in DOMAIN factors[sched.m] |->
                         IF /\ x >= sched.f * dim + thr[w].i
                            /\ x < sched.f * dim + thr[w].hi
                         THEN val_div(ws.numerator[x - sched.f * dim],
                                      ws.denominator[x - sched.f * dim])
                         ELSE factors[sched.m][x]]]
  /\ hist' = HistWrite(hist, w, {<<"factor", sched.m, sched.f * inp.dims[sched.m] + o>> :
                                   o \in thr[w].i..(thr[w].hi - 1)})
  /\ thr' = [thr EXCEPT ![w].pc = "barrier"]
  /\ UNCHANGED <<ttmc_vars, inp, sched, status, residual, ws, dec>>

\* the phase after the barrier that ends a phase of column f
PhaseAfter(phase, m, nmodes) ==
  IF phase = "add" THEN [phase |-> "nd_init", m |-> 0]
  ELSE IF phase = "nd_init" THEN [phase |-> "process", m |-> m]
  ELSE IF phase = "process" THEN [phase |-> "update", m |-> m]
  ELSE IF m + 1 < nmodes THEN [phase |-> "nd_init", m |-> m + 1]
  ELSE [phase |-> "sub", m |-> 0]

\* a work-sharing loop whose barrier lets the threads through as soon as one
\* of them has arrived
ImplicitBarrier_nowait == \E w \in Threads : thr[w].pc = "barrier"

\* the barrier at the end of `#pragma omp for` without nowait (ccd.c:98, 364,
\* 374, 398): it opens when every thread of the team has arrived
ImplicitBarrier == \A w \in Threads : thr[w].pc = "barrier"

\* the implicit barrier that ends each work-sharing loop of ccd.c:355-406:
\* every thread has arrived, all go on to the next loop
PhaseBarrier ==
  /\ status = "epoch"
  /\ sched.phase # "sub"
  /\ ImplicitBarrier
  /\ LET nx == PhaseAfter(sched.phase, sched.m, inp.csf.nmodes)
     IN /\ sched' = [sched EXCEPT !.phase = nx.phase, !.m = nx.m, !.next = 0]
        /\ thr' = [w \in Threads |-> PhaseShare(w, nx.phase, nx.m, thr[w])]
  /\ hist' = HistBarrier(hist)
  /\ UNCHANGED <<ttmc_vars, factors, residual, ws, dec, inp, status>>

\* ccd.c:351, 406-408: column f is subtracted; the next column starts with
\* p_update_residual3(csf, f + 1, model, ws, 1)
NextColumn ==
  /\ status = "epoch"
  /\ sched.phase = "sub"
  /\ ImplicitBarrier
  /\ sched.f + 1 < inp.rank
  /\ sched' = [sched EXCEPT !.phase = "add", !.f = @ + 1, !.m = 0, !.next = 0]
  /\ thr' = [w \in Threads |-> PhaseShare(w, "add", 0, thr[w])]
  /\ hist' = HistBarrier(hist)
  /\ UNCHANGED <<ttmc_vars, factors, residual, ws, dec, inp, status>>

\* ccd.c:348, 409: the last column is subtracted and the region joins,
\* `reduction(+:loss)` adding up the threads' loss
EpochEnd ==
  /\ status = "epoch"
  /\ sched.phase = "sub"
  /\ ImplicitBarrier
  /\ sched.f + 1 >= inp.rank
  /\ sched' = [sched EXCEPT !.phase = "none",
                 !.loss = SumSet([w \in Threads |-> thr[w].loss], Threads)]
  /\ status' = "converge"
  /\ hist' = HistBarrier(hist)
  /\ UNCHANGED <<ttmc_vars, factors, residual, ws, dec, inp, thr>>

\* ccd.c:413-422: the loss is printed; tc_converge (not among the sources)
\* says whether to stop
EpochConverge ==
  /\ status = "converge"
  /\ \E stop \in BOOLEAN :
       /\ IF stop THEN /\ status' = "returned"
                       /\ sched' = sched
          ELSE /\ status' = "loop"
               /\ sched' = [sched EXCEPT !.e = @ + 1]
       /\ hist' = [hist EXCEPT !.converge = Append(@, <<sched.e, stop>>)]
  /\ UNCHANGED <<ttmc_vars, factors, residual, ws, dec, inp, thr>>

\* ccd.c:345, 424-427: max_its epochs are done; csf_free, return
CcdReturn ==
  /\ status = "loop"
  /\ sched.e >= inp.max_its + 1
  /\ status' = "returned"
  /\ UNCHANGED <<ttmc_vars, ccd_vars, inp, thr, sched>>

\* p_init_residual called on its own returns to its caller
InitOnlyReturn ==
  /\ inp.fn = "p_init_residual"
  /\ status = "initialized"
  /\ status' = "returned"
  /\ UNCHANGED <<ttmc_vars, ccd_vars, inp, thr, sched>>

\* the factors of a rank-R model, dims[m] * rank values for mode m, all
\* different within a factor
GenFactors(dims, rank) ==
  [m \in 0..2 |-> [x \in 0..(dims[m] * rank - 1) |->
                     1 + m + 2 * (x % dims[m]) + 3 * (x \div dims[m])]]

\* the tilings of the 2 x 2 x 2 tensors
CcdTilings == {A0(<<1, 1, 1>>), A0(<<2, 1, 1>>), A0(<<2, 2, 2>>)}

CcdTensors ==
  {MkCoo(3, A0(<<2, 2, 2>>), S) :
     S \in {T \in SUBSET Coords(3, A0(<<2, 2, 2>>)) :
              Cardinality(T) >= 1 /\ Cardinality(T) <= MaxNnz}}

\* the state before a call: nothing of the CSF copied yet, the threads idle
CcdStart ==
  /\ residual = <<>>
  /\ dec = <<>>
  /\ hist = HistStart
  /\ ws = [numerator |-> [o \in 0..1 |-> 0], denominator |-> [o \in 0..1 |-> 0]]
  /\ thr = [w \in 0..(inp.nthreads - 1) |-> CcdThreadIdle]
  /\ sched = CcdNoSched
  /\ status = "called"
  /\ tenout = <<>> /\ tenout0 = <<>> /\ locks_initialized = FALSE /\ locks = {}

\* p_init_residual called on every tensor, level order and tiling, with one
\* column and with MaxRank columns, by one thread and by MaxThreads threads
InitResidualInit ==
  /\ \E tt \in CcdTensors :
     \E perm \in Perms(3) :
     \E tile_dims \in CcdTilings :
     \E dense_null \in BOOLEAN :
     \E rank \in {1, MaxRank} :
     \E nth \in {1, MaxThreads} :
       /\ inp = [fn |-> "p_init_residual", tt |-> tt, dims |-> tt.dims,
                 rank |-> rank, nthreads |-> nth, max_its |-> 0,
                 regularization |-> [m \in 0..2 |-> 1],
                 csf |-> MkCsf(tt, perm, "SPLATT_DENSETILE", tile_dims, dense_null)]
       /\ factors = GenFactors(tt.dims, rank)
  /\ CcdStart

InitResidualNext ==
  \/ CcdCall
  \/ \E w \in Threads : InitSlice(w)
  \/ \E w \in Threads : InitTileEnd(w)
  \/ InitReturn
  \/ InitOnlyReturn

SpecInitResidual == InitResidualInit /\ [][InitResidualNext]_vars

\* splatt_tc_ccd called for max_its epochs by MaxThreads threads on the
\* tensors tiled 2 x 2 x 1, with one column and with MaxRank columns
CcdInit ==
  /\ \E tt \in CcdTensors :
     \E perm \in {IdPerm(3), A0(<<2, 0, 1>>)} :
     \E rank \in {1, MaxRank} :
       /\ inp = [fn |-> "splatt_tc_ccd", tt |-> tt, dims |-> tt.dims,
                 rank |-> rank, nthreads |-> MaxThreads, max_its |-> MaxIts,
                 regularization |-> [m \in 0..2 |-> 1],
                 csf |-> MkCsf(tt, perm, "SPLATT_DENSETILE", A0(<<2, 2, 1>>), TRUE)]
       /\ factors = GenFactors(tt.dims, rank)
  /\ CcdStart

CcdNext ==
  \/ CcdCall
  \/ \E w \in Threads : InitSlice(w)
  \/ \E w \in Threads : InitTileEnd(w)
  \/ InitReturn
  \/ CcdInitLoss
  \/ EpochBegin
  \/ \E w \in Threads : ResidualTile(w)
  \/ \E w \in Threads : ResidualEnd(w)
  \/ \E w \in Threads : NumerInit(w)
  \/ \E w \in Threads : ProcessTile(w)
  \/ \E w \in Threads : ProcessLayerEnd(w)
  \/ \E w \in Threads : ProcessEnd(w)
  \/ \E w \in Threads : FactorUpdate(w)
  \/ PhaseBarrier
  \/ NextColumn
  \/ EpochEnd
  \/ EpochConverge
  \/ CcdReturn

SpecCCD == CcdInit /\ [][CcdNext]_vars

\* the nonzeros of the tensors of the epoch runs: two in one tile of the
\* 2 x 2 x 1 tiling, the third in another tile and layer of mode 0
EpochCoords == {A0(<<0, 0, 0>>), A0(<<0, 0, 1>>), A0(<<1, 0, 1>>)}

EpochTensors ==
  {MkCoo(3, A0(<<2, 2, 2>>), S) :
     S \in {T \in SUBSET EpochCoords :
              Cardinality(T) >= 1 /\ Cardinality(T) <= MaxNnz}}

\* splatt_tc_ccd called with MaxRank columns by MaxThreads threads: for one
\* epoch on the tensors of EpochTensors tiled 2 x 2 x 1, in both level
\* orders, and for MaxIts epochs on the tensor of the one nonzero (0,0,0);
\* and called for one epoch with one column by one and by two threads on the
\* tensors of one nonzero tiled 2 x 2 x 2
EpochInit ==
  /\ \/ \E tt \in EpochTensors :
        \E perm \in {IdPerm(3), A0(<<2, 0, 1>>)} :
        \E max_its \in IF tt.nnz = 1 /\ perm = IdPerm(3)
                           /\ CoordOf(tt, 0) = A0(<<0, 0, 0>>)
                        THEN {1, MaxIts} ELSE {1} :
          /\ inp = [fn |-> "splatt_tc_ccd", tt |-> tt, dims |-> tt.dims,
                    rank |-> MaxRank, nthreads |-> MaxThreads, max_its |-> max_its,
                    regularization |-> [m \in 0..2 |-> 1],
                    csf |-> MkCsf(tt, perm, "SPLATT_DENSETILE", A0(<<2, 2, 1>>), TRUE)]
          /\ factors = GenFactors(tt.dims, MaxRank)
     \/ \E c \in EpochCoords :
        \E perm \in {IdPerm(3), A0(<<2, 0, 1>>)} :
        \E nth \in {1, 2} :
          LET tt == MkCoo(3, A0(<<2, 2, 2>>), {c})
          IN /\ inp = [fn |-> "splatt_tc_ccd", tt |-> tt, dims |-> tt.dims,
                       rank |-> 1, nthreads |-> nth, max_its |-> 1,
                       regularization |-> [m \in 0..2 |-> 1],
                       csf |-> MkCsf(tt, perm, "SPLATT_DENSETILE",
                                     A0(<<2, 2, 2>>), TRUE)]
             /\ factors = GenFactors(tt.dims, 1)
  /\ CcdStart

SpecEpoch == EpochInit /\ [][CcdNext]_vars

-----------------------------------------------------------------------------
(* Claims about CCD *)

\* the training value X at the coordinates of leaf jj of a tile
LeafValue(tt, csf, pt, jj) ==
  LET ids == LeafIds(pt, jj)
      n == CHOOSE y \in 0..(tt.nnz - 1) :
             \A L \in 0..2 : tt.ind[csf.dim_perm[L]][y] = ids[L]
  IN tt.vals[n]

\* the model's value at leaf jj, sum over f of A[i,f] * B[j,f] * C[k,f], with
\* entry (row, f) of a factor the one p_init_residual reads (ccd.c:276-289)
ModelValue(csf, pt, jj, fac, nfactors) ==
  LET ids == LeafIds(pt, jj)
  IN SumSet([f \in 0..(nfactors - 1) |->
               FactorRowMajor(fac[csf.dim_perm[0]], ids[0], f, nfactors)
                 * FactorRowMajor(fac[csf.dim_perm[1]], ids[1], f, nfactors)
                 * FactorRowMajor(fac[csf.dim_perm[2]], ids[2], f, nfactors)],
            0..(nfactors - 1))

\* every leaf holds the residual of the current model
ResidualOfModel ==
  \A t \in 0..(inp.csf.ntiles - 1) :
    \A jj \in TileLeaves(inp.csf.pt[t]) :
      residual[t][jj] = LeafValue(inp.tt, inp.csf, inp.csf.pt[t], jj)
                          - ModelValue(inp.csf, inp.csf.pt[t], jj, factors, inp.rank)

\* C5: in splatt_tc_ccd, for any rank, right after column f is subtracted in
\* any epoch every leaf vals[jj] at (i,j,k) is X_ijk minus the sum over all
\* columns g of A[i,g]*B[j,g]*C[k,g] of the current model, entry (i,g) being
\* the one p_init_residual reads as row i, column g.
C5_ResidualAfterSubtract ==
  (/\ inp.fn = "splatt_tc_ccd" /\ status = "epoch" /\ sched.phase = "sub"
   /\ \A w \in Threads : thr[w].pc = "barrier")
    => ResidualOfModel

\* C6: after p_init_residual on a 3-mode CSF, whatever its tiles, its root
\* fids, the rank and the number of threads, every leaf of every tile holds
\* X minus the sum over f of A[i,f]*B[j,f]*C[k,f], (i,j,k) its indices at
\* levels 0, 1, 2, and was decremented exactly once for each column f.
C6_InitResidual ==
  (status \in {"initialized", "returned"})
    => /\ ResidualOfModel
       /\ \A t \in 0..(inp.csf.ntiles - 1) :
            \A jj \in TileLeaves(inp.csf.pt[t]) :
              \A f \in 0..(inp.rank - 1) : dec[t][jj][f] = 1

\* p_init_residual returned from a CSF of two tiles, one nonzero in each, with
\* two columns and two threads
C6_Witness ==
  /\ inp.fn = "p_init_residual" /\ status = "returned"
  /\ inp.csf.ntiles = 2 /\ inp.rank = 2 /\ inp.nthreads = 2
  /\ \A t \in 0..1 : inp.csf.pt[t].nfibs[2] = 1
  /\ \E t \in 0..1 : residual[t][0] # inp.csf.pt[t].vals[0]


-----------------------------------------------------------------------------
(* Claims about an epoch of splatt_tc_ccd *)

ModePass == inp.fn = "splatt_tc_ccd" /\ status = "epoch" /\ sched.phase = "process"
AllAtBarrier == \A w \in Threads : thr[w].pc = "barrier"

\* the tiles of layer t of mode m, and the tiles get_next_tileid yields for
\* the layer, in the order it yields them
LayerTiles(tile_dims, nmodes, m, t) ==
  {id \in 0..(ProdSet(tile_dims, 0..(nmodes - 1)) - 1) :
     TileCoordOfId(id, tile_dims, nmodes, m, nmodes - 1) = t}
RECURSIVE WalkFrom(_, _, _, _, _)
WalkFrom(tile, tile_dims, nmodes, m, t) ==
  LET nx == get_next_tileid(tile, tile_dims, nmodes, m, t)
  IN IF nx = TILE_END THEN <<>>
     ELSE <<nx>> \o WalkFrom(nx, tile_dims, nmodes, m, t)

\* C13: in a mode pass the layers t < tile_dims[m] and the walker visit
\* every tile once: no tile is processed twice; a thread is inside the layer
\* it was given, has processed the tiles of the layer up to its current one
\* and none after it, all the tiles of the layers it has left and none of
\* those it has not begun; when all threads are at the barrier every tile was
\* processed once.  The walk of a layer is its tiles in ascending id.
C13_ModePassVisitsEachTileOnce ==
  ModePass =>
    LET td == inp.csf.tile_dims
        nm == inp.csf.nmodes
        m == sched.m
    IN /\ \A t \in DOMAIN hist.visits : hist.visits[t] <= 1
       /\ \A w \in Threads :
          \A c \in 0..(td[m] - 1) :
            c % inp.nthreads = w =>
              \A id \in LayerTiles(td, nm, m, c) :
                hist.visits[id] =
                  IF \/ thr[w].pc = "barrier"
                     \/ thr[w].i > c
                     \/ thr[w].i = c /\ thr[w].tile # TILE_BEGIN /\ id <= thr[w].tile
                  THEN 1 ELSE 0
       /\ \A w \in Threads :
            thr[w].pc = "work" /\ thr[w].tile # TILE_BEGIN
              => thr[w].tile \in LayerTiles(td, nm, m, thr[w].i)
       /\ AllAtBarrier => \A t \in 0..(inp.csf.ntiles - 1) : hist.visits[t] = 1
       /\ \A c \in 0..(td[m] - 1) :
            LET walk == WalkFrom(TILE_BEGIN, td, nm, m, c)
            IN /\ {walk[k] : k \in DOMAIN walk} = LayerTiles(td, nm, m, c)
               /\ \A k \in DOMAIN walk : k > 1 => walk[k - 1] < walk[k]
       /\ (td = A0(<<2, 2, 2>>) /\ m = 1)
            => WalkFrom(TILE_BEGIN, td, nm, m, 0) = <<0, 1, 4, 5>>

\* the mode pass over mode 1 of a CSF tiled 2 x 2 x 2 is complete
C13_Witness ==
  /\ ModePass /\ AllAtBarrier
  /\ inp.csf.tile_dims = A0(<<2, 2, 2>>)
  /\ sched.m = 1
  /\ \A t \in 0..7 : hist.visits[t] = 1

\* the cells written since the last barrier
WrittenCells == {cw[1] : cw \in hist.writers}

\* the cells of numer[], denom[] for mode m, and of column f of its factor
NumerDenomCells(m) ==
  {<<a, o>> : a \in {"numer", "denom"}, o \in 0..(inp.dims[m] - 1)}
FactorColumnCells(m, f) ==
  {<<"factor", m, f * inp.dims[m] + o>> : o \in 0..(inp.dims[m] - 1)}

\* the loops of column f, in program order (ccd.c:351-406)
LoopsOfColumn(f, nmodes) ==
  <<<<f, "add", 0>>>>
    \o [k \in 1..(3 * nmodes) |->
          <<f, <<"nd_init", "process", "update">>[((k - 1) % 3) + 1], (k - 1) \div 3>>]
    \o <<<<f, "sub", 0>>>>

\* the loops of columns 0..f-1, in program order
RECURSIVE LoopsBefore(_, _)
LoopsBefore(f, nmodes) ==
  IF f = 0 THEN <<>> ELSE LoopsBefore(f - 1, nmodes) \o LoopsOfColumn(f - 1, nmodes)

\* the position of a loop in its column
LoopIndex(phase, m) ==
  IF phase = "add" THEN 0
  ELSE IF phase = "sub" THEN 3 * inp.csf.nmodes + 1
  ELSE 3 * m + (IF phase = "nd_init" THEN 1 ELSE IF phase = "process" THEN 2 ELSE 3)

\* C14: within an epoch the loops of a column are separated by barriers.  A
\* thread is in the loop <<f, phase, m>> only when every loop before it in
\* the epoch was completed by all threads; the threads leave a loop only when
\* all of them have finished their share of it, and then numer[] and denom[]
\* are all initialised (after the initialisation), every tile was
\* accumulated (after the accumulation), and column f of the factor of mode
\* m is all written (after the update), before any thread accumulates for
\* mode m + 1 or subtracts the column.
C14_BarriersSeparateLoops ==
  /\ [](status = "epoch" =>
          hist.done = LoopsBefore(sched.f, inp.csf.nmodes)
                        \o SubSeq(LoopsOfColumn(sched.f, inp.csf.nmodes), 1,
                                  LoopIndex(sched.phase, sched.m)))
  /\ [][(status = "epoch"
           /\ <<sched.f, sched.phase, sched.m>>' # <<sched.f, sched.phase, sched.m>>)
          => /\ AllAtBarrier
             /\ sched.phase = "nd_init" => NumerDenomCells(sched.m) \subseteq WrittenCells
             /\ sched.phase = "process" =>
                   \A t \in 0..(inp.csf.ntiles - 1) : hist.visits[t] = 1
             /\ sched.phase = "update" =>
                   FactorColumnCells(sched.m, sched.f) \subseteq WrittenCells]_vars

\* a thread has accumulated a tile for mode 1, after the update and the
\* initialisation that precede it
C14_Witness ==
  /\ ModePass
  /\ sched.m = 1
  /\ \E t \in 0..(inp.csf.ntiles - 1) : hist.visits[t] = 1
  /\ \E w \in Threads : thr[w].pc = "work"
  /\ <<sched.f, "update", 0>> = hist.done[Len(hist.done) - 1]

\* the epochs tc_converge was called for, and what it returned
ConvergeEpochs == [k \in DOMAIN hist.converge |-> hist.converge[k][1]]
ConvergeSaid(k) == hist.converge[k][2]

\* C15: splatt_tc_ccd runs at most max_its epochs and stops before that only
\* when tc_converge returned true after a completed epoch.  tc_converge is
\* called once for epoch 0, before any factor is updated and before any loop
\* of an epoch, and then once after each epoch, in order; an epoch starts
\* only while no call said to stop; when tc_converge is called after an epoch,
\* and at the return, the last epoch has run the add step, the three loops
\* of every mode and the subtract step of every one of the R columns.
C15_EpochsAndConvergence ==
  inp.fn = "splatt_tc_ccd" =>
    LET n == Len(hist.converge)
        all == LoopsBefore(inp.rank, inp.csf.nmodes)
    IN /\ ConvergeEpochs = [k \in 1..n |-> k - 1]
       /\ n = 0 => /\ status \in {"called", "p_init_residual", "initialized"}
                   /\ factors = GenFactors(inp.dims, inp.rank)
                   /\ hist.done = <<>>
       /\ status \in {"called", "p_init_residual", "initialized"} => n = 0
       /\ status \in {"loop", "epoch", "converge"} =>
            /\ n = sched.e
            /\ \A k \in 2..n : ConvergeSaid(k) = FALSE
       /\ status \in {"epoch", "converge"} => sched.e <= inp.max_its
       /\ status = "converge" => hist.done = all
       /\ status = "loop" /\ sched.e > 1 => hist.done = all
       /\ status = "returned" =>
            /\ n - 1 <= inp.max_its
            /\ n - 1 < inp.max_its => n > 1 /\ ConvergeSaid(n) = TRUE
            /\ \A k \in 2..(n - 1) : ConvergeSaid(k) = FALSE
            /\ n > 1 => hist.done = all

\* the run stopped before max_its epochs, after an epoch
C15_Witness ==
  /\ inp.fn = "splatt_tc_ccd"
  /\ status = "returned"
  /\ Len(hist.converge) - 1 < inp.max_its
  /\ Len(hist.converge) > 1
  /\ inp.rank > 1

-----------------------------------------------------------------------------
(* Flop counts and scratch sizes, ttm.c:892-919 and 1079-1136 *)

\* ttm.c:1094-1097, `for(d=1; d < depth; ++d)`: move down the tree
RECURSIVE FlopsDown(_, _, _, _, _, _)
FlopsDown(csf, pt, nfactors, depth, d, acc) ==
  IF d < depth
  THEN LET out_size == acc.out_size * nfactors[csf.dim_perm[d]]
       IN FlopsDown(csf, pt, nfactors, depth, d + 1,
                    [out_size |-> out_size,
                     flops |-> acc.flops + pt.nfibs[d] * out_size])
  ELSE acc

\* ttm.c:1103-1106, `for(d=nmodes; d-- != depth+1; )`: move up the tree
RECURSIVE FlopsUp(_, _, _, _, _, _)
FlopsUp(csf, pt, nfactors, depth, d, acc) ==
  IF d # depth + 1
  THEN LET out_size == acc.out_size * nfactors[csf.dim_perm[d - 1]]
       IN FlopsUp(csf, pt, nfactors, depth, d - 1,
                  [out_size |-> out_size,
                   flops |-> acc.flops + pt.nfibs[d - 1] * out_size])
  ELSE acc

\* the body of the tile loop without the final join
count_flops_tile_no_join(csf, pt, mode, nfactors, flops) ==
  LET depth == csf_mode_depth(mode, csf.dim_perm, csf.nmodes)
      down == FlopsDown(csf, pt, nfactors, depth, 1,
                        [out_size |-> nfactors[csf.dim_perm[0]], flops |-> flops])
  IN FlopsUp(csf, pt, nfactors, depth, csf.nmodes,
             [out_size |-> 1, flops |-> down.flops]).flops

\* ttm.c:1090-1113: the body of the tile loop of ttmc_csf_count_flops
count_flops_tile(csf, pt, mode, nfactors, flops) ==
  LET depth == csf_mode_depth(mode, csf.dim_perm, csf.nmodes)
      down == FlopsDown(csf, pt, nfactors, depth, 1,
                        [out_size |-> nfactors[csf.dim_perm[0]], flops |-> flops])
      up == FlopsUp(csf, pt, nfactors, depth, csf.nmodes,
                    [out_size |-> 1, flops |-> down.flops])
  IN IF depth > 0
     THEN up.flops + pt.nfibs[depth] * p_ttmc_outncols(nfactors, csf.nmodes, mode)
     ELSE up.flops

\* the loop over the levels that stops below the level above the nonzeros
largest_outer_levels_all(nmodes) == 0..(nmodes - 2)

\* ttm.c:908, `for(m=0; m < nmodes-2; ++m)`
largest_outer_levels(nmodes) == 0..(nmodes - 3)

\* ttm.c:908-916: the levels of one tile; each fiber of a level raises
\* outer_sizes[dim_perm[m]] to its length
RECURSIVE largest_outer_tile(_, _, _, _)
largest_outer_tile(csf, pt, levels, outer_sizes) ==
  IF levels = {} THEN outer_sizes
  ELSE LET m == CHOOSE x \in levels : \A y \in levels : x <= y
           madj == csf.dim_perm[m]
           lens == {pt.fptr[m][f + 1] - pt.fptr[m][f] : f \in 0..(pt.nfibs[m] - 1)}
           big == IF lens = {} THEN 0 ELSE CHOOSE x \in lens : \A y \in lens : y <= x
       IN largest_outer_tile(csf, pt, levels \ {m},
                             [outer_sizes EXCEPT ![madj] = SS_MAX(@, big)])

\* the locals of the three functions
CountLocals ==
  [tile |-> 0, flops |-> 0, m |-> 0, accum |-> 1, nnzflops |-> 0, t |-> 0,
   outer_sizes |-> <<>>, ret |-> "none"]

\* ttm.c:1084-1086: depth is looked up, flops = 0
CsfFlopsCall ==
  /\ inp.fn = "ttmc_csf_count_flops"
  /\ status = "called"
  /\ sched' = CountLocals
  /\ status' = "tiles"
  /\ UNCHANGED <<ttmc_vars, ccd_vars, inp, thr>>

\* ttm.c:1089-1113: one tile
CsfFlopsTile ==
  /\ inp.fn = "ttmc_csf_count_flops"
  /\ status = "tiles"
  /\ sched.tile < inp.csf.ntiles
  /\ sched' = [sched EXCEPT
                 !.flops = count_flops_tile(inp.csf, inp.csf.pt[sched.tile], inp.mode,
                                            inp.nfactors, @),
                 !.tile = @ + 1]
  /\ UNCHANGED <<ttmc_vars, ccd_vars, inp, thr, status>>

\* ttm.c:1115: return flops
CsfFlopsReturn ==
  /\ inp.fn = "ttmc_csf_count_flops"
  /\ status = "tiles"
  /\ sched.tile >= inp.csf.ntiles
  /\ sched' = [sched EXCEPT !.ret = sched.flops]
  /\ status' = "returned"
  /\ UNCHANGED <<ttmc_vars, ccd_vars, inp, thr>>

\* ttm.c:1125-1127: nnzflops = 0, accum = 1, m = nmodes
CoordFlopsCall ==
  /\ inp.fn = "ttmc_coord_count_flops"
  /\ status = "called"
  /\ sched' = [CountLocals EXCEPT !.m = inp.tt.nmodes]
  /\ status' = "modes"
  /\ UNCHANGED <<ttmc_vars, ccd_vars, inp, thr>>

\* a loop over the modes that leaves out mode 0
CoordFlopsMode_above_zero ==
  /\ inp.fn = "ttmc_coord_count_flops"
  /\ status = "modes"
  /\ sched.m # 0
  /\ LET m == sched.m - 1
     IN sched' = IF m # inp.mode /\ m > 0
                 THEN [sched EXCEPT !.m = m,
                                    !.accum = @ * inp.nfactors[m],
                                    !.nnzflops = @ + sched.accum * inp.nfactors[m]]
                 ELSE [sched EXCEPT !.m = m]
  /\ UNCHANGED <<ttmc_vars, ccd_vars, inp, thr, status>>

\* ttm.c:1127-1133, `for(m=nmodes; m-- != 0; )`: one mode
CoordFlopsMode ==
  /\ inp.fn = "ttmc_coord_count_flops"
  /\ status = "modes"
  /\ sched.m # 0
  /\ LET m == sched.m - 1
     IN sched' = IF m # inp.mode
                 THEN [sched EXCEPT !.m = m,
                                    !.accum = @ * inp.nfactors[m],
                                    !.nnzflops = @ + sched.accum * inp.nfactors[m]]
                 ELSE [sched EXCEPT !.m = m]
  /\ UNCHANGED <<ttmc_vars, ccd_vars, inp, thr, status>>

\* ttm.c:1135: return tt->nnz * nnzflops
CoordFlopsReturn ==
  /\ inp.fn = "ttmc_coord_count_flops"
  /\ status = "modes"
  /\ sched.m = 0
  /\ sched' = [sched EXCEPT !.ret = inp.tt.nnz * sched.nnzflops]
  /\ status' = "returned"
  /\ UNCHANGED <<ttmc_vars, ccd_vars, inp, thr>>

\* ttm.c:897-900: the memset of outer_sizes
OuterCall ==
  /\ inp.fn = "ttmc_largest_outer"
  /\ status = "called"
  /\ sched' = [CountLocals EXCEPT
                 !.outer_sizes = [m \in 0..(inp.tt.nmodes - 1) |-> 0]]
  /\ status' = "tiles"
  /\ UNCHANGED <<ttmc_vars, ccd_vars, inp, thr>>

\* ttm.c:906-917: one tile of representation t
OuterTile ==
  /\ inp.fn = "ttmc_largest_outer"
  /\ status = "tiles"
  /\ sched.t < inp.ntensors
  /\ sched.tile < inp.tensors[sched.t].ntiles
  /\ LET csf == inp.tensors[sched.t]
     IN sched' = [sched EXCEPT
                    !.outer_sizes =
                       largest_outer_tile(csf, csf.pt[sched.tile],
                                          largest_outer_levels(csf.nmodes), @),
                    !.tile = @ + 1]
  /\ UNCHANGED <<ttmc_vars, ccd_vars, inp, thr, status>>

\* ttm.c:902-906: the next representation
OuterNextTensor ==
  /\ inp.fn = "ttmc_largest_outer"
  /\ status = "tiles"
  /\ sched.t < inp.ntensors
  /\ sched.tile >= inp.tensors[sched.t].ntiles
  /\ sched' = [sched EXCEPT !.t = @ + 1, !.tile = 0]
  /\ UNCHANGED <<ttmc_vars, ccd_vars, inp, thr, status>>

\* ttm.c:919: all representations are done
OuterReturn ==
  /\ inp.fn = "ttmc_largest_outer"
  /\ status = "tiles"
  /\ sched.t >= inp.ntensors
  /\ sched' = [sched EXCEPT !.ret = sched.outer_sizes]
  /\ status' = "returned"
  /\ UNCHANGED <<ttmc_vars, ccd_vars, inp, thr>>

\* csf_ntensors (csf.c, not among the sources; spec.md 4.1)
csf_ntensors(alloc, nmodes) ==
  IF alloc = "SPLATT_CSF_TWOMODE" THEN 2
  ELSE IF alloc = "SPLATT_CSF_ALLMODE" THEN nmodes ELSE 1

\* the tensors of the counts: 2 x 2 x 2, and 2 x 2 x 2 x 2 with the last
\* index of a nonzero the product of its first two
CountTensors3 ==
  {MkCoo(3, A0(<<2, 2, 2>>), S) :
     S \in {T \in SUBSET Coords(3, A0(<<2, 2, 2>>)) :
              Cardinality(T) >= 1 /\ Cardinality(T) <= MaxNnz}}
CountTensors4 ==
  {MkCoo(4, A0(<<2, 2, 2, 2>>), S) :
     S \in {T \in SUBSET {c \in Coords(4, A0(<<2, 2, 2, 2>>)) : c[3] = c[0] * c[1]} :
              Cardinality(T) >= 1 /\ Cardinality(T) <= MaxNnz}}

\* the numbers of columns: all different, and 1 in one mode
CountCols(nmodes) ==
  {[m \in 0..(nmodes - 1) |-> A0(<<2, 3, 5, 7>>)[m]],
   [m \in 0..(nmodes - 1) |-> A0(<<3, 1, 2, 4>>)[m]]}

\* the tilings of the counts: none, and the first mode cut in two
CountTilings(nmodes) ==
  {NoTiling(nmodes), [m \in 0..(nmodes - 1) |-> IF m = 0 THEN 2 ELSE 1]}

CountInit ==
  /\ NoCcd
  /\ \/ \E tt \in CountTensors3 \cup CountTensors4 :
        \E perm \in Perms(tt.nmodes) :
        \E tile_dims \in CountTilings(tt.nmodes) :
        \E mode \in 0..(tt.nmodes - 1) :
        \E nfactors \in CountCols(tt.nmodes) :
          inp = [fn |-> "ttmc_csf_count_flops", tt |-> tt, mode |-> mode,
                 nfactors |-> nfactors, nthreads |-> 1,
                 csf |-> MkCsf(tt, perm, "SPLATT_DENSETILE", tile_dims, TRUE)]
     \/ \E tt \in CountTensors3 \cup CountTensors4 :
        \E mode \in 0..(tt.nmodes - 1) :
        \E nfactors \in CountCols(tt.nmodes) :
          inp = [fn |-> "ttmc_coord_count_flops", tt |-> tt, mode |-> mode,
                 nfactors |-> nfactors, nthreads |-> 1]
     \/ \E tt \in CountTensors3 :
        \E perm \in Perms(3) :
        \E alloc \in CsfAllocs :
        \E tile_dims \in CountTilings(3) :
          inp = [fn |-> "ttmc_largest_outer", tt |-> tt, nthreads |-> 1,
                 ntensors |-> csf_ntensors(alloc, 3),
                 tensors |-> csf_alloc(tt, alloc, perm, "SPLATT_DENSETILE", tile_dims)]
     \/ \E tt \in CountTensors4 :
        \E perm \in Perms(4) :
        \E tile_dims \in CountTilings(4) :
          inp = [fn |-> "ttmc_largest_outer", tt |-> tt, nthreads |-> 1,
                 ntensors |-> csf_ntensors("SPLATT_CSF_ONEMODE", 4),
                 tensors |-> [t \in {0} |->
                                MkCsf(tt, perm, "SPLATT_DENSETILE", tile_dims, TRUE)]]
  /\ tenout = <<>> /\ tenout0 = <<>> /\ locks_initialized = FALSE /\ locks = {}
  /\ thr = [w \in {0} |-> IdleThread]
  /\ sched = CountLocals
  /\ status = "called"

CountNext ==
  \/ CsfFlopsCall
  \/ CsfFlopsTile
  \/ CsfFlopsReturn
  \/ CoordFlopsCall
  \/ CoordFlopsMode
  \/ CoordFlopsReturn
  \/ OuterCall
  \/ OuterTile
  \/ OuterNextTensor
  \/ OuterReturn

SpecCount == CountInit /\ [][CountNext]_vars

-----------------------------------------------------------------------------
(* Claims about the flop counts and the scratch sizes *)

\* the product of the columns of the levels in D of a CSF
LevelCols(csf, ncol, D) == ProdSet([d \in D |-> ncol[csf.dim_perm[d]]], D)

\* the work of one tile for the mode at level k: the levels strictly between
\* the root and k, the levels below k, and the join at k
TileFlops(csf, pt, mode, ncol) ==
  LET k == csf_mode_depth(mode, csf.dim_perm, csf.nmodes)
      above == 1..(k - 1)
      below == (k + 1)..(csf.nmodes - 1)
  IN SumSet([d \in above |-> pt.nfibs[d] * LevelCols(csf, ncol, 0..d)], above)
     + SumSet([d \in below |->
                 pt.nfibs[d] * LevelCols(csf, ncol, d..(csf.nmodes - 1))], below)
     + (IF k > 0
        THEN pt.nfibs[k] * ProdSet(ncol, (0..(csf.nmodes - 1)) \ {mode})
        ELSE 0)

\* C16: ttmc_csf_count_flops returns the sum over the tiles of: for each level
\* d strictly between the root and the level k of the mode, nfibs[d] times
\* the columns of the levels d' <= d; for each level d below k, nfibs[d]
\* times the columns of the levels d' >= d; and, when k > 0, nfibs[k] times
\* the number of output columns.
C16_CsfFlops ==
  (inp.fn = "ttmc_csf_count_flops" /\ status = "returned") =>
    sched.ret = SumSet([t \in 0..(inp.csf.ntiles - 1) |->
                          TileFlops(inp.csf, inp.csf.pt[t], inp.mode, inp.nfactors)],
                       0..(inp.csf.ntiles - 1))

\* the count of a 4-mode CSF of two nonempty tiles for the mode at level 2:
\* a level between the root and the mode, a level below it, and the join
C16_Witness ==
  /\ inp.fn = "ttmc_csf_count_flops" /\ status = "returned"
  /\ inp.csf.nmodes = 4
  /\ csf_mode_depth(inp.mode, inp.csf.dim_perm, 4) = 2
  /\ inp.csf.ntiles = 2
  /\ \A t \in 0..1 : inp.csf.pt[t].nfibs[0] > 0
  /\ sched.ret > 0

\* the cost of one nonzero: over the modes m' of M other than the output
\* mode, the columns of the modes m'' >= m' other than the output mode
CoordCost(nmodes, mode, ncol, M) ==
  LET T == M \ {mode}
  IN SumSet([mp \in T |-> ProdSet(ncol, (mp..(nmodes - 1)) \ {mode})], T)

\* C17: ttmc_coord_count_flops returns nnz times the sum, over all the modes
\* m' other than the output mode, mode 0 among them, of the product of
\* ncol[m''] over the modes m'' >= m' other than the output mode.
C17_CoordFlopsAllModes ==
  (inp.fn = "ttmc_coord_count_flops" /\ status = "returned") =>
    sched.ret = inp.tt.nnz * CoordCost(inp.tt.nmodes, inp.mode, inp.nfactors,
                                       0..(inp.tt.nmodes - 1))

\* C17 as stated: the sum is over the modes m' > 0 other than the output mode
C17_AsStated ==
  (inp.fn = "ttmc_coord_count_flops" /\ status = "returned") =>
    sched.ret = inp.tt.nnz * CoordCost(inp.tt.nmodes, inp.mode, inp.nfactors,
                                       1..(inp.tt.nmodes - 1))

\* the count for an output mode other than mode 0
C17_Witness ==
  /\ inp.fn = "ttmc_coord_count_flops" /\ status = "returned"
  /\ inp.mode # 0
  /\ inp.tt.nnz > 1
  /\ sched.ret > 0

\* the lengths of the fibers of the levels in D that hold mode x, over all
\* representations and tiles
FiberLengths(x, D) ==
  UNION {{pt.fptr[L][f + 1] - pt.fptr[L][f] : f \in 0..(pt.nfibs[L] - 1)} :
           <<pt, L>> \in UNION {{<<inp.tensors[r].pt[t], L>> :
                                   t \in 0..(inp.tensors[r].ntiles - 1),
                                   L \in {d \in D : inp.tensors[r].dim_perm[d] = x}} :
                                  r \in 0..(inp.ntensors - 1)}}
LargestFiber(x, D) ==
  LET lens == FiberLengths(x, D)
  IN IF lens = {} THEN 0 ELSE CHOOSE a \in lens : \A b \in lens : b <= a

\* C18: after ttmc_largest_outer, for every level L in [0, nmodes-3], the
\* levels above the one whose fibers hold the nonzeros, outer_sizes[dim_perm[L]]
\* is the largest length fptr[L][f+1] - fptr[L][f] of a fiber at such a level
\* holding that mode, over all representations and tiles; the entry of a
\* mode that no representation has at such a level is 0.
C18_LargestOuterAboveFibers ==
  (inp.fn = "ttmc_largest_outer" /\ status = "returned") =>
    \A x \in 0..(inp.tt.nmodes - 1) :
      sched.ret[x] = LargestFiber(x, 0..(inp.tt.nmodes - 3))

\* C18 as stated: the levels are those of [0, nmodes-2]
C18_AsStated ==
  (inp.fn = "ttmc_largest_outer" /\ status = "returned") =>
    \A r \in 0..(inp.ntensors - 1) :
    \A L \in 0..(inp.tt.nmodes - 2) :
      LET x == inp.tensors[r].dim_perm[L]
      IN sched.ret[x] = LargestFiber(x, 0..(inp.tt.nmodes - 2))

\* the sizes of a 4-mode CSF of two tiles whose longest fiber has one node at
\* level 0 and two at level 1
C18_Witness ==
  /\ inp.fn = "ttmc_largest_outer" /\ status = "returned"
  /\ inp.tt.nmodes = 4
  /\ inp.tensors[0].ntiles = 2
  /\ sched.ret[inp.tensors[0].dim_perm[0]] = 1
  /\ sched.ret[inp.tensors[0].dim_perm[1]] = 2

-----------------------------------------------------------------------------
(* Claims about the numerators and denominators of CCD *)

\* the leaves of the CSF of splatt_tc_ccd, one for each nonzero
CcdLeaves ==
  UNION {{<<t, jj>> : jj \in TileLeaves(inp.csf.pt[t])} :
           t \in 0..(inp.csf.ntiles - 1)}

\* the index of a leaf in mode m
ModeIndex(leaf, m) ==
  LeafIds(inp.csf.pt[leaf[1]], leaf[2])[csf_mode_depth(m, inp.csf.dim_perm,
                                                       inp.csf.nmodes)]

\* s_ijk: the product of the entries in column f of the factors of the two
\* modes other than m, entry (i, f) of a factor of dim rows being the one at
\* f * dim + i (ccd.c:24-26, 397)
OtherEntries(leaf, m, f) ==
  LET others == (0..(inp.csf.nmodes - 1)) \ {m}
  IN ProdSet([mp \in others |->
                FactorColMajor(factors[mp], ModeIndex(leaf, mp), f, inp.dims[mp])],
             others)

\* the nonzeros whose index in mode m is o
LeavesOfRow(m, o) == {leaf \in CcdLeaves : ModeIndex(leaf, m) = o}

\* C19: for every column f and mode m of an epoch, whichever routine the depth
\* of m selects: when the initialisation is complete, numerator[o] = 0 and
\* denominator[o] = lambda_m for every o < dims[m]; when the accumulation is
\* complete, numerator[o] is the sum of r * s and denominator[o] is lambda_m
\* plus the sum of s * s over exactly the nonzeros whose mode-m index is o,
\* r the value in the nonzero's leaf and s the product of the column-f
\* entries of the two other factors; when the update is complete, entry
\* (o, f) of the factor of mode m is numerator[o] / denominator[o], which is
\* 0 for a row that no nonzero touches.
C19_NumeratorDenominator ==
  (inp.fn = "splatt_tc_ccd" /\ status = "epoch" /\ AllAtBarrier) =>
    LET m == sched.m
        f == sched.f
        lambda == inp.regularization[m]
        r(leaf) == residual[leaf[1]][leaf[2]]
    IN \A o \in 0..(inp.dims[m] - 1) :
         LET row == LeavesOfRow(m, o)
         IN /\ sched.phase = "nd_init" =>
                 ws.numerator[o] = 0 /\ ws.denominator[o] = lambda
            /\ sched.phase \in {"process", "update"} =>
                 /\ ws.numerator[o]
                      = SumSet([leaf \in row |-> r(leaf) * OtherEntries(leaf, m, f)],
                               row)
                 /\ ws.denominator[o]
                      = lambda + SumSet([leaf \in row |->
                                           OtherEntries(leaf, m, f)
                                             * OtherEntries(leaf, m, f)], row)
            /\ sched.phase = "update" =>
                 /\ factors[m][f * inp.dims[m] + o]
                      = val_div(ws.numerator[o], ws.denominator[o])
                 /\ row = {} => factors[m][f * inp.dims[m] + o] = 0

\* the leaf routine has accumulated the second column: one row has two
\* nonzeros, the other none
C19_Witness ==
  /\ ModePass /\ AllAtBarrier
  /\ sched.f = 1
  /\ which_depth(inp.csf, sched.m) = "NODE_LEAF"
  /\ \E o \in 0..(inp.dims[sched.m] - 1) : Cardinality(LeavesOfRow(sched.m, o)) = 2
  /\ \E o \in 0..(inp.dims[sched.m] - 1) : LeavesOfRow(sched.m, o) = {}
  /\ \E o \in 0..(inp.dims[sched.m] - 1) : ws.numerator[o] # 0

-----------------------------------------------------------------------------
(* Claims about the sharing of an epoch's writes among the threads *)

\* C20: during an epoch no two threads write the same cell between two
\* barriers: each entry of numer[] and denom[], each entry of the updated
\* factor column and, in the add and subtract steps, each leaf value is
\* written by one thread only; in a mode pass the tiles of different layers
\* along mode m have no output index in common; and no lock is ever held.
C20_SingleWriterNoLock ==
  (inp.fn = "splatt_tc_ccd" /\ status = "epoch") =>
    /\ \A a, b \in hist.writers : a[1] = b[1] => a[2] = b[2]
    /\ locks = {}
    /\ sched.phase = "process" =>
         LET depth == csf_mode_depth(sched.m, inp.csf.dim_perm, inp.csf.nmodes)
             layer(t) == TileCoordOfId(t, inp.csf.tile_dims, inp.csf.nmodes,
                                       sched.m, inp.csf.nmodes - 1)
         IN \A t1, t2 \in 0..(inp.csf.ntiles - 1) :
              layer(t1) # layer(t2) =>
                TileOutIds(inp.csf.pt[t1], depth) \cap TileOutIds(inp.csf.pt[t2], depth)
                  = {}

\* two threads have accumulated into numer[], each into its own entries
C20_Witness ==
  /\ ModePass
  /\ \E a, b \in hist.writers :
       a[2] # b[2] /\ a[1][1] = "numer" /\ b[1][1] = "numer"
  /\ \E t \in 0..(inp.csf.ntiles - 1) : hist.visits[t] = 0

-----------------------------------------------------------------------------
(* p_csf_ttmc_root3 run by a team of threads, ttm.c:292-383 *)

\* the calls of p_csf_ttmc_root3 inside a parallel region: small tensors in
\* every level order by 1..MaxThreads threads, and tensors of 17 slices, two
\* chunks of the dynamic schedule, by two threads; the output mode is the
\* root level and the caller zeroed the slab
Root3Init ==
  /\ NoCcd
  /\ \/ \E S \in {T \in SUBSET Coords(3, A0(<<2, 2, 2>>)) :
                    Cardinality(T) >= 1 /\ Cardinality(T) <= MaxNnz} :
        \E perm \in Perms(3) :
        \E dense_null \in BOOLEAN :
        \E nth \in 1..MaxThreads :
          LET tt == MkCoo(3, A0(<<2, 2, 2>>), S)
          IN inp = [fn |-> "p_csf_ttmc_root3", tt |-> tt,
                    mats |-> GenMats(3, tt.dims), mode |-> perm[0],
                    nthreads |-> nth,
                    tensors |-> [t \in {0} |->
                                   MkCsf(tt, perm, "SPLATT_NOTILE", NoTiling(3),
                                         dense_null)]]
     \/ \E b \in {0, 1} :
        \E e \in Coords(3, A0(<<1, 2, 2>>)) :
        \E dense_null \in BOOLEAN :
          LET tt == WideTensor(b, {e})
              perm == IdPerm(3)
          IN inp = [fn |-> "p_csf_ttmc_root3", tt |-> tt,
                    mats |-> GenMats(3, tt.dims), mode |-> 0,
                    nthreads |-> 2,
                    tensors |-> [t \in {0} |->
                                   MkCsf(tt, perm, "SPLATT_NOTILE", NoTiling(3),
                                         dense_null)]]
  /\ tenout = ZeroSlab(inp.tt.dims[inp.mode]
                         * StreamTotalCols(inp.tt, inp.mats, inp.mode))
  /\ tenout0 = tenout
  /\ locks_initialized = TRUE
  /\ locks = {}
  /\ thr = [w \in 0..(inp.nthreads - 1) |-> [IdleThread EXCEPT !.pc = "omp_for"]]
  /\ sched = [NoSched EXCEPT !.kern = "p_csf_ttmc_root3",
                              !.scratch = CallerScratch(inp.tt, inp.mats)]
  /\ status = "parallel"

Root3Next ==
  \/ \E w \in Threads : OmpForClaim(w)
  \/ \E w \in Threads : ChunkEnd(w)
  \/ \E w \in Threads : Root3Load(w)
  \/ \E w \in Threads : Root3Store(w)
  \/ KernReturn

SpecRoot3 == Root3Init /\ [][Root3Next]_vars

-----------------------------------------------------------------------------
(* Claims about the root kernel run by several workers *)

\* the slices thread w has taken from the schedule and not finished
ClaimedSlices(w) ==
  IF thr[w].pc \in {"slice", "root3_store"}
  THEN thr[w].i..(thr[w].hi - 1) ELSE {}

\* the slices some thread has finished
FinishedSlices ==
  {s \in 0..(RunTile.nfibs[0] - 1) :
     s < sched.next /\ \A w \in DOMAIN thr : s \notin ClaimedSlices(w)}

\* C21: the root kernel never takes a lock, and in every interleaving of the
\* workers no two of them write the same output row of Y: a slice is handed
\* to one worker only, distinct slices of the tile have distinct output row
\* ids, and so a row holds the complete result of its slice once that slice
\* is finished and is untouched before.
C21_RootSingleWriterNoLock ==
  inp.fn = "p_csf_ttmc_root3"
    => LET nslices == RunTile.nfibs[0]
           ref == RefSlab(inp.tt, inp.mats, inp.mode,
                          RemainingLevels(RunCsf.dim_perm, 3, inp.mode, 0))
       IN /\ locks = {}
          /\ \A w \in DOMAIN thr : ~InLockSection(w)
          /\ \A w, v \in DOMAIN thr :
               w # v => ClaimedSlices(w) \cap ClaimedSlices(v) = {}
          /\ \A s, t \in 0..(nslices - 1) :
               s # t => SliceFid(RunTile, s) # SliceFid(RunTile, t)
          /\ \A w, v \in DOMAIN thr :
               (w # v /\ thr[w].pc = "root3_store" /\ thr[v].pc = "root3_store")
                 => SliceFid(RunTile, thr[w].i) # SliceFid(RunTile, thr[v].i)
          /\ \A s \in 0..(nslices - 1) :
               Slice(tenout, SliceFid(RunTile, s) * RowCells, RowCells)
                 = IF s \in FinishedSlices
                   THEN Slice(ref, SliceFid(RunTile, s) * RowCells, RowCells)
                   ELSE ZeroSlab(RowCells)
          /\ status = "returned" => tenout = ref

\* two workers are each between the loads and the stores of a row, one in
\* the first chunk of 16 slices and one in the second, slices finished before
C21_Witness ==
  /\ inp.fn = "p_csf_ttmc_root3"
  /\ inp.nthreads = 2
  /\ thr[0].pc = "root3_store" /\ thr[1].pc = "root3_store"
  /\ thr[0].i # thr[1].i
  /\ RunTile.nfibs[0] = 17
  /\ FinishedSlices # {}

-----------------------------------------------------------------------------
(* Claims about the loss of an epoch *)

\* the sum of vals[jj]^2 over the leaves of all tiles, as they stand
ResidualSquares ==
  SumSet([t \in 0..(inp.csf.ntiles - 1) |-> TileLoss(inp.csf.pt[t], residual[t])],
         0..(inp.csf.ntiles - 1))

\* C22: the loss splatt_tc_ccd passes to tc_converge for an epoch is the sum
\* over the leaves of all tiles of vals[jj]^2 as they stand after the
\* subtract step of the last column, whatever the number of workers and
\* whichever worker took which tile: what the add steps and the subtract
\* steps of earlier columns returned is not in it, and each leaf is in it once.
C22_EpochLoss ==
  (inp.fn = "splatt_tc_ccd" /\ status = "converge")
    => /\ sched.f = inp.rank - 1
       /\ sched.loss = ResidualSquares
       /\ \A w \in DOMAIN thr : thr[w].loss = thr[w].myloss

\* an epoch of two columns ended with two workers each contributing the
\* squares of the tiles it subtracted the last column on
C22_Witness ==
  /\ inp.fn = "splatt_tc_ccd" /\ status = "converge"
  /\ inp.rank >= 2
  /\ \E w, v \in DOMAIN thr : w # v /\ thr[w].loss > 0 /\ thr[v].loss > 0
  /\ sched.loss > 0

-----------------------------------------------------------------------------
(* Claims about the scratch of the TTMc kernels *)

\* the largest number of fibers of a slice of the tile
MaxSliceFibers(tile) ==
  MaxOf([s \in 0..(tile.nfibs[0] - 1) |-> tile.fptr[0][s + 1] - tile.fptr[0][s]])

\* the scratch regions a kernel takes from thds[tid] and the number of values
\* it indexes in each, as <<region, values>>: ttm.c:320-325, 340, 361, 373
\* (root3), ttm.c:413, 431 (intl3), ttm.c:493, 509 (leaf3); the general
\* p_csf_ttmc_root takes none
ScratchUse(kern, csf, tile, mats) ==
  IF kern = "p_csf_ttmc_root3"
  THEN {<<0, MaxSliceFibers(tile) * mats[csf.dim_perm[2]].J>>,
        <<1, MaxSliceFibers(tile)>>,
        <<2, MaxSliceFibers(tile) * mats[csf.dim_perm[1]].J>>}
  ELSE IF kern = "p_csf_ttmc_intl3"
  THEN {<<0, mats[csf.dim_perm[2]].J>>}
  ELSE IF kern = "p_csf_ttmc_leaf3"
  THEN {<<2, mats[csf.dim_perm[0]].J * mats[csf.dim_perm[1]].J>>}
  ELSE {}

\* thread w has entered the kernel of the region
EnteredKernel(w) ==
  /\ sched.kern \in Kernels3 \cup {"p_csf_ttmc_root"}
  /\ thr[w].pc \notin {"idle", "decide"}

\* C23: every scratch region a TTMc kernel reads or writes was allocated at
\* kernel entry with at least the size the kernel indexes; entered through
\* splatt_ttmc, each worker owns three regions, scratch[0], scratch[1] and
\* scratch[2], the last of at least rankA * rankB values in the leaf kernel.
C23_ScratchAllocated ==
  (inp.fn = "splatt_ttmc" /\ \E w \in DOMAIN thr : EnteredKernel(w))
    => /\ DOMAIN sched.scratch = 0..2 \/ status = "returned"
       /\ \A w \in DOMAIN thr :
            (EnteredKernel(w) /\ status \in {"parallel", "crashed"})
              => \A u \in ScratchUse(sched.kern, RunCsf, RunTile, inp.mats) :
                   /\ u[1] \in DOMAIN sched.scratch
                   /\ sched.scratch[u[1]] >= u[2]

-----------------------------------------------------------------------------
(* Claims about ttmc_stream on matrices *)

\* C24: for a 2-mode tensor and either output mode, ttmc_stream accumulates
\* each nonzero exactly once into Y: it returns with Y[i,:] equal to the sum,
\* over the nonzeros with index i in the output mode, of x times the row of
\* the other mode's factor matrix; skipping the output mode in the descending
\* loop drops no nonzero's contribution.
C24_StreamTwoModes ==
  (inp.fn = "ttmc_stream" /\ status = "returned" /\ inp.tt.nmodes = 2)
    => tenout = RefSlab(inp.tt, inp.mats, inp.mode,
                        OtherModes(inp.tt.nmodes, inp.mode, 0))

-----------------------------------------------------------------------------
(* The kernels that lock: p_csf_ttmc_intl3 and p_csf_ttmc_leaf3 reached      *)
(* through splatt_ttmc, and ttmc_stream, under a fair scheduler              *)

\* the calls of splatt_ttmc that ttmc_csf sends to the internal or the leaf
\* kernel, and the calls of ttmc_stream on 3-mode tensors
LocksInit ==
  \/ /\ TtmcInit
     /\ inp.alloc = "SPLATT_CSF_ONEMODE"
     /\ inp.tensors[0].which_tile = "SPLATT_NOTILE"
     /\ csf_mode_depth(inp.mode, inp.tensors[0].dim_perm, 3) > 0
  \/ /\ StreamInit
     /\ inp.tt.nmodes = 3

LocksNext ==
  \/ SplattTtmcCall
  \/ TtmcCsfDispatch
  \/ \E w \in Threads : DecideRun(w)
  \/ \E w \in Threads : OmpForClaim(w)
  \/ \E w \in Threads : ChunkEnd(w)
  \/ \E w \in Threads : Csf3Slice(w)
  \/ \E w \in Threads : Csf3SliceEnd(w)
  \/ \E w \in Threads : Intl3SetLock(w)
  \/ \E w \in Threads : Intl3LockFault(w)
  \/ \E w \in Threads : Intl3Load(w)
  \/ \E w \in Threads : Intl3Store(w)
  \/ \E w \in Threads : Intl3Unset(w)
  \/ \E w \in Threads : Leaf3Fiber(w)
  \/ \E w \in Threads : Leaf3ScratchFault(w)
  \/ \E w \in Threads : Leaf3FiberEnd(w)
  \/ \E w \in Threads : Leaf3SetLock(w)
  \/ \E w \in Threads : Leaf3LockFault(w)
  \/ \E w \in Threads : Leaf3Load(w)
  \/ \E w \in Threads : Leaf3Store(w)
  \/ \E w \in Threads : Leaf3Unset(w)
  \/ TtmcCsfReturn
  \/ SplattTtmcReturn
  \/ StreamNext

\* the scheduler does not leave the program standing while a thread can run
SpecLocks == LocksInit /\ [][LocksNext]_vars /\ WF_vars(LocksNext)

-----------------------------------------------------------------------------
(* Claims about the locks of the kernels *)

\* the slots thread w holds
HeldSlots(w) == {h[1] : h \in {g \in locks : g[2] = w}}

\* a worker holds at most one lock, only inside the row update it took the
\* lock for, and the lock is the slot it passed to omp_set_lock there
OneLockAtATime ==
  \A w \in DOMAIN thr :
    /\ Cardinality(HeldSlots(w)) <= 1
    /\ HeldSlots(w) # {} => (InLockSection(w) /\ HeldSlots(w) = {LockedSlot(w)})

\* C25: in the internal, leaf and streaming kernels a worker holds at most
\* one striped lock at any time and releases the slot it acquired before it
\* acquires another or finishes; no interleaving of the workers deadlocks and,
\* under fair scheduling, every kernel call eventually completes.
C25_LocksReleasedCallsComplete ==
  /\ []OneLockAtATime
  /\ <>(status = "returned")

=============================================================================
